---------------------------- MODULE Spec2Model ----------------------------
(***************************************************************************)
(* A model of git-fold: the per-blob amendment store (amend.py), the       *)
(* partial commit graph (log.py), the attribution driver (__init__.py),    *)
(* the branch rebuilder (amend.py) and the asyncio apply backend           *)
(* (apply_rewrite.py).                                                     *)
(*                                                                         *)
(* The module holds several specifications over one set of variables; a    *)
(* specification leaves the variables of the other parts at their initial  *)
(* values:                                                                 *)
(*   SpecBlob    - AmendedBlob.replace_lines on one blob                   *)
(*   SpecPlan    - suggest_basic: the attribution driver filling the plan  *)
(*   SpecRebuild - AmendedBranchBuilder walking the partial graph, against *)
(*                 the AbstractApplyStrategy interface                     *)
(*   Spec        - GitSubprocessApplyStrategy: the worker, the commit and  *)
(*                 blob tasks and a caller of the strategy, interleaved    *)
(*   SpecLive    - AmendedBranchBuilder.apply driving the strategy to its  *)
(*                 end with no failure, under fair scheduling              *)
(*   SpecFair    - Spec with callers resumed once the completion future    *)
(*                 is done                                                 *)
(*   SpecAdjust  - AmendedBlob.adjusted_by_diff on one blob and one diff   *)
(*   SpecCoalesce - _coalesce_amended_blobs up to the diff reconciliation  *)
(***************************************************************************)
EXTENDS Integers, Sequences, FiniteSets, TLC

(***************************************************************************)
(* Bounds of the model.                                                    *)
(***************************************************************************)
\* line numbers of a blob are 1..MaxLine
MaxLine == 3
\* extents of an amendment are 0..MaxExtent
MaxExtent == 2
\* a blob holds at most MaxRecords amendment records
MaxRecords == 2
\* the repository holds the commits 1..NumCommits
NumCommits == 3
\* the staged hunk holds 1..MaxOps ops
MaxOps == 3

\* a caller of the apply strategy makes at most MaxRequests rewrite_commit calls
MaxRequests == 2
\* capacity of the request queue.  The source builds asyncio.Queue(maxsize=100);
\* the model runs the same queue at a capacity the callers above can fill.
QueueCapacity == 1

\* the longest line typed at the prompt of perform_rewrite
MaxAnswer == 2

\* a byte string is a sequence of line ids (each stands for one '\n'-terminated
\* line); <<>> is b''.  The byte strings replace_lines is called with:
Replacements == {<<>>, <<1>>}

VARIABLES
    \* ---- AmendedBlob (amend.py) ----
    amendments,     \* AmendedBlob.amendments: sequence of AmendmentRecord
    lastCall,       \* the last replace_lines call: its arguments, the list before it, its outcome
    adjusted,       \* the call blob.adjusted_by_diff(diff, commit, file, oid) and its outcome
    coalescing,     \* a call of _coalesce_amended_blobs: its arguments, the tree, its outcome
    planCall,     \* calls of AmendmentPlan.add_amended_range: how many returned, the last outcome
    cli,     \* perform_rewrite (__main__.py): its position, the heads, the commands run, the answer
    blameCall,     \* a call of parse_blame (blame.py): the blame output, include_boundary, its outcome
    reconciling,     \* a call of _coalesce_amended_blobs with the trees of the commit and its parents, and its outcome
    treeWrite,     \* a call of _write_tree (apply_rewrite.py): the tree of the commit, the rewritten blobs, the trees built
    commitWrite,     \* a call of _write_commit (apply_rewrite.py): the original commit, the environment of the run, the commit written
    diffParse,     \* a run of DiffParser.parse_diff_hunks (diff_parser.py): the lines read, the parse state, the hunks yielded
    lsTrees,     \* blob OID per path that ls_tree lists for each commit rewritten so far
    blobOutput,     \* a call of AmendedBlob.write: the blob read and the bytes written
    \* ---- the repository ----
    repo,           \* commit -> ordered list of its parents
    head,           \* the commit HEAD resolves to
    \* ---- suggest_basic and AmendmentPlan (__init__.py, amend.py) ----
    hunk,           \* the hunk of the staged diff
    plan,           \* AmendmentPlan._amendments: commit -> path -> amendments of the blob
    driver,         \* where suggest_basic stands: pc, index of the next edit, result
    lastEdit,       \* the edit add_hunk_to_plan handled last, with its attribution
    blameQueries,   \* number of attribution queries run so far
    writeCommits,   \* how the call of AmendmentPlan.write_commits went
    \* ---- AmendedBranchBuilder (amend.py) ----
    commitGraph,    \* AmendedBranchBuilder.commit_graph: child_to_parents of the partial graph
    rewriteOrder,   \* reverse_topo_ordering(head), the list apply() walks
    builder,        \* where AmendedBranchBuilder stands: pc, position in ordering, error
    amendedCommits, \* AmendedBranchBuilder.amended_commits: commit -> RewrittenCommit
    submitted,      \* the rewrite_commit calls made so far, in order
    \* ---- GitBackend and GitBackendWorker (apply_rewrite.py) ----
    nextHandle,     \* GitBackend._next_handle
    queue,          \* GitBackendWorker._queue: the requests put and not yet got
    unfinished,     \* asyncio.Queue's count of items put and not yet task_done()
    commitRewrites, \* GitBackendWorker._commit_rewrites: handle id -> input future, task
    blobRewrites,   \* GitBackendWorker._blob_rewrites: handle id -> future
    completion,     \* GitBackendWorker._completion: "pending", "result" or "exception"
    completionExc,  \* the exception _completion holds: its type and the task that raised it
    mainTask,       \* GitBackendWorker._main: "running" or "cancelled"
    objects,        \* the objects written to the object database
    client,         \* the caller of the strategy: pc, the call it is in, its error
    issued          \* what rewrite_commit returned to the caller, in order

blobVars == <<amendments, lastCall, adjusted, coalescing, blobOutput, planCall, cli, blameCall, reconciling, treeWrite, commitWrite, diffParse, lsTrees>>

repoVars == <<repo, head>>

planVars == <<hunk, plan, driver, lastEdit, blameQueries, writeCommits>>

rebuildVars == <<commitGraph, rewriteOrder, builder, amendedCommits, submitted>>

backendVars == <<queue, unfinished, commitRewrites, blobRewrites, completion, completionExc, mainTask,
                 objects, client, issued>>

vars == <<amendments, lastCall, adjusted, coalescing, blobOutput, planCall, cli, blameCall,
          reconciling, treeWrite, commitWrite, diffParse, lsTrees,
          repo, head, hunk, plan, driver, lastEdit, blameQueries,
          writeCommits, commitGraph, rewriteOrder, builder, amendedCommits, submitted, nextHandle,
          queue, unfinished, commitRewrites, blobRewrites, completion, completionExc, mainTask, objects,
          client, issued>>

(***************************************************************************)
(* AmendmentRecord and its tuple order (amend.py: NamedTuple compared by   *)
(* bisect as a plain tuple: start, then extent, then replacement).         *)
(***************************************************************************)
AmendmentRecord(start, extent, replacement) ==
    [start |-> start, extent |-> extent, replacement |-> replacement]

\* bytes.__lt__: lexicographic, a proper prefix is smaller
RECURSIVE BytesLess(_, _)
BytesLess(a, b) ==
    IF b = <<>> THEN FALSE
    ELSE IF a = <<>> THEN TRUE
    ELSE IF Head(a) # Head(b) THEN Head(a) < Head(b)
    ELSE BytesLess(Tail(a), Tail(b))

RecordLess(a, b) ==
    \/ a.start < b.start
    \/ a.start = b.start /\ a.extent < b.extent
    \/ a.start = b.start /\ a.extent = b.extent /\ BytesLess(a.replacement, b.replacement)

\* bisect.bisect_left(a, x, lo, hi) with 0-based lo/hi as in the library
RECURSIVE BisectLeft(_, _, _, _)
BisectLeft(a, x, lo, hi) ==
    IF lo < hi
    THEN LET mid == (lo + hi) \div 2
         IN  IF RecordLess(a[mid + 1], x)
             THEN BisectLeft(a, x, mid + 1, hi)
             ELSE BisectLeft(a, x, lo, mid)
    ELSE lo

InsertAt(s, index, x) ==
    SubSeq(s, 1, index) \o <<x>> \o SubSeq(s, index + 1, Len(s))

\* AmendedBlob.replace_lines: the outcome ("ok" or the ValueError) and the list after it
ReplaceLinesMissingPriorCheck(amends, start, extent, new_lines) ==
    LET record == AmendmentRecord(start, extent, new_lines)
        index == BisectLeft(amends, record, 0, Len(amends))
    IN  IF index < Len(amends) /\ record = amends[index + 1]
        THEN [result |-> "ok", amendments |-> amends]
        ELSE IF index < Len(amends) /\ start + extent > amends[index + 1].start
        THEN [result |-> "overlapping amendments requested", amendments |-> amends]
        ELSE [result |-> "ok", amendments |-> InsertAt(amends, index, record)]

ReplaceLinesNoDedup(amends, start, extent, new_lines) ==
    LET record == AmendmentRecord(start, extent, new_lines)
        index == BisectLeft(amends, record, 0, Len(amends))
    IN  IF index > 0 /\ amends[index].start + amends[index].extent > start
        THEN [result |-> "overlapping amendments requested", amendments |-> amends]
        ELSE IF index < Len(amends) /\ start + extent > amends[index + 1].start
        THEN [result |-> "overlapping amendments requested", amendments |-> amends]
        ELSE [result |-> "ok", amendments |-> InsertAt(amends, index, record)]

ReplaceLines(amends, start, extent, new_lines) ==
    LET record == AmendmentRecord(start, extent, new_lines)
        index == BisectLeft(amends, record, 0, Len(amends))
    IN  IF index > 0 /\ amends[index].start + amends[index].extent > start
        THEN [result |-> "overlapping amendments requested", amendments |-> amends]
        ELSE IF index < Len(amends) /\ record = amends[index + 1]
        THEN [result |-> "ok", amendments |-> amends]
        ELSE IF index < Len(amends) /\ start + extent > amends[index + 1].start
        THEN [result |-> "overlapping amendments requested", amendments |-> amends]
        ELSE [result |-> "ok", amendments |-> InsertAt(amends, index, record)]

\* lastCall before any call
NoCall == [start |-> 0, extent |-> 0, replacement |-> <<>>, before |-> <<>>, result |-> "none"]

(***************************************************************************)
(* Hunk (git.py): ops is a sequence of DiffLineType; the bytes of op i are *)
(* the one-line byte string <<i>>.                                         *)
(***************************************************************************)
DiffLineType == {"Add", "Remove", "Context"}

FileLineMapping(old_start, old_extent, new_start, new_extent) ==
    [old_start |-> old_start, old_extent |-> old_extent,
     new_start |-> new_start, new_extent |-> new_extent]

\* Hunk.map_lines that yields at every Context op and at the end, without
\* the test for a mapping in progress
RECURSIVE MapLinesFromYieldsAlways(_, _, _, _, _, _, _, _)
MapLinesFromYieldsAlways(ops, i, old_line, new_line, old_mstart, new_mstart, old_extent, new_extent) ==
    IF i > Len(ops)
    THEN <<FileLineMapping(old_mstart, old_extent, new_mstart, new_extent)>>
    ELSE IF ops[i] = "Context"
    THEN <<FileLineMapping(old_mstart, old_extent, new_mstart, new_extent)>>
         \o MapLinesFromYieldsAlways(ops, i + 1, old_line + 1, new_line + 1,
                                     old_line + 1, new_line + 1, 0, 0)
    ELSE IF ops[i] = "Remove"
    THEN MapLinesFromYieldsAlways(ops, i + 1, old_line + 1, new_line,
                                  old_mstart, new_mstart, old_extent + 1, new_extent)
    ELSE MapLinesFromYieldsAlways(ops, i + 1, old_line, new_line + 1,
                                  old_mstart, new_mstart, old_extent, new_extent + 1)

\* Hunk.map_lines: the loop over ops from op i on, with the generator's locals
RECURSIVE MapLinesFrom(_, _, _, _, _, _, _, _)
MapLinesFrom(ops, i, old_line, new_line, old_mstart, new_mstart, old_extent, new_extent) ==
    IF i > Len(ops)
    THEN IF old_extent # 0 \/ new_extent # 0
         THEN <<FileLineMapping(old_mstart, old_extent, new_mstart, new_extent)>>
         ELSE <<>>
    ELSE IF ops[i] = "Context"
    THEN (IF old_extent # 0 \/ new_extent # 0
          THEN <<FileLineMapping(old_mstart, old_extent, new_mstart, new_extent)>>
          ELSE <<>>)
         \o MapLinesFrom(ops, i + 1, old_line + 1, new_line + 1,
                         old_line + 1, new_line + 1, 0, 0)
    ELSE IF ops[i] = "Remove"
    THEN MapLinesFrom(ops, i + 1, old_line + 1, new_line,
                      old_mstart, new_mstart, old_extent + 1, new_extent)
    ELSE MapLinesFrom(ops, i + 1, old_line, new_line + 1,
                      old_mstart, new_mstart, old_extent, new_extent + 1)

MapLines(h) ==
    MapLinesFrom(h.ops, 1, h.old_start, h.new_start, h.old_start, h.new_start, 0, 0)

\* a missing file name
None == "None"

\* a missing IndexedRange (the None of an Optional[IndexedRange])
NoRange == [rev |-> 0, file |-> None, start |-> 0, extent |-> 0]

\* no result yet
NoResult == <<>>

IndexedRange(rev, file, start, extent) ==
    [rev |-> rev, file |-> file, start |-> start, extent |-> extent]

\* Hunk.get_edits: one (old_range, new_range) pair per line mapping
GetEdits(h, old_rev, new_rev) ==
    LET ms == MapLines(h)
    IN  [k \in 1..Len(ms) |->
            [old_range |-> IF h.old_file = None THEN NoRange
                           ELSE IndexedRange(old_rev, h.old_file,
                                             ms[k].old_start, ms[k].old_extent),
             new_range |-> IF h.new_file = None THEN NoRange
                           ELSE IndexedRange(new_rev, h.new_file,
                                             ms[k].new_start, ms[k].new_extent)]]

\* the ops that are not Remove, in order, as their op indices
RECURSIVE NewSideOps(_, _)
NewSideOps(ops, i) ==
    IF i > Len(ops) THEN <<>>
    ELSE (IF ops[i] # "Remove" THEN <<i>> ELSE <<>>) \o NewSideOps(ops, i + 1)

\* Hunk.new_range_content
NewRangeContent(h, start, extent) ==
    IF extent = 0 THEN <<>>
    ELSE LET line_gen == NewSideOps(h.ops, 1)
             Pick[k \in 0..Len(line_gen)] ==
                 IF k = 0 THEN <<>>
                 ELSE LET lineno == h.new_start + k - 1
                      IN  Pick[k - 1] \o
                          (IF start <= lineno /\ lineno < start + extent
                           THEN <<line_gen[k]>> ELSE <<>>)
         IN  Pick[Len(line_gen)]

(***************************************************************************)
(* CommitGraph (log.py).  The repository is a function from commit to the  *)
(* ordered list of its parents; commits are numbered so that parents have  *)
(* smaller numbers.  child_to_parents is that function on the known        *)
(* commits.                                                                *)
(***************************************************************************)
SeqRange(s) == {s[i] : i \in 1..Len(s)}

\* the commits reachable from c over parent links, c included
RECURSIVE AncestorsOrSelf(_, _)
AncestorsOrSelf(rp, c) ==
    {c} \cup UNION {AncestorsOrSelf(rp, rp[c][i]) : i \in 1..Len(rp[c])}

\* git rev-list --parents --ancestry-path head ^root: the commits reachable
\* from head and not from root that descend from root, each with its parents
RevListAncestryPath(rp, hd, root) ==
    {c \in AncestorsOrSelf(rp, hd) \ AncestorsOrSelf(rp, root) :
        root \in AncestorsOrSelf(rp, c)}

\* CommitGraph._add_from_rev_list_parents: child_to_parents after the entries
\* of the listed commits are merged in
AddFromRevListParents(rp, graph, listed) ==
    [c \in (DOMAIN graph) \cup listed |-> rp[c]]

\* CommitGraph.build_partial, the loop over roots from index i on
RECURSIVE AddPaths(_, _, _, _, _)
AddPaths(rp, graph, hd, roots, i) ==
    IF i > Len(roots) THEN graph
    ELSE IF roots[i] \in DOMAIN graph
    THEN AddPaths(rp, graph, hd, roots, i + 1)
    ELSE AddPaths(rp,
                  AddFromRevListParents(rp, graph,
                                        RevListAncestryPath(rp, hd, roots[i])),
                  hd, roots, i + 1)

EmptyGraph == [c \in {} |-> <<>>]

\* build_partial without its closing add_commits(roots)
BuildPartialWithoutRoots(rp, hd, roots) ==
    AddPaths(rp, EmptyGraph, hd, roots, 1)

\* CommitGraph.build_partial(head, roots); add_commits lists the roots themselves
BuildPartial(rp, hd, roots) ==
    AddFromRevListParents(rp, AddPaths(rp, EmptyGraph, hd, roots, 1),
                          SeqRange(roots))

ReverseSeq(s) == [i \in 1..Len(s) |-> s[Len(s) + 1 - i]]

\* the entries reverse_topo_ordering pushes for the parents of a commit:
\* reversed(parents), skipping visited parents and parents unknown to the graph
RECURSIVE PushParents(_, _, _, _)
PushParents(graph, visited, rparents, i) ==
    IF i > Len(rparents) THEN <<>>
    ELSE (IF rparents[i] \notin visited /\ rparents[i] \in DOMAIN graph
          THEN <<[child |-> rparents[i], parents |-> graph[rparents[i]],
                  has_recursed |-> FALSE]>>
          ELSE <<>>)
         \o PushParents(graph, visited, rparents, i + 1)

\* CommitGraph.reverse_topo_ordering: the while loop over work_stack
RECURSIVE TopoLoopAppendOnFirstVisit(_, _, _, _)
TopoLoopAppendOnFirstVisit(graph, work_stack, visited, ordering) ==
    IF work_stack = <<>> THEN ordering
    ELSE LET top == work_stack[Len(work_stack)]
             rest == SubSeq(work_stack, 1, Len(work_stack) - 1)
         IN  TopoLoopAppendOnFirstVisit(
                 graph,
                 rest \o PushParents(graph, visited \cup {top.child},
                                     ReverseSeq(top.parents), 1),
                 visited \cup {top.child},
                 Append(ordering, top.child))

RECURSIVE TopoLoop(_, _, _, _)
TopoLoop(graph, work_stack, visited, ordering) ==
    IF work_stack = <<>> THEN ordering
    ELSE LET top == work_stack[Len(work_stack)]
             rest == SubSeq(work_stack, 1, Len(work_stack) - 1)
         IN  IF ~top.has_recursed
             THEN TopoLoop(graph,
                           Append(rest, [top EXCEPT !.has_recursed = TRUE])
                               \o PushParents(graph, visited, ReverseSeq(top.parents), 1),
                           visited, ordering)
             ELSE TopoLoop(graph, rest, visited \cup {top.child},
                           Append(ordering, top.child))

\* CommitGraph.reverse_topo_ordering(head); child_to_parents[head] raises
\* KeyError when head is unknown to the graph
ReverseTopoOrdering(graph, hd) ==
    IF hd \notin DOMAIN graph THEN <<"KeyError">>
    ELSE TopoLoop(graph,
                  <<[child |-> hd, parents |-> graph[hd], has_recursed |-> FALSE]>>,
                  {}, <<>>)


(***************************************************************************)
(* AmendmentPlan (amend.py) and the per-hunk attribution driver            *)
(* (__init__.py).                                                          *)
(***************************************************************************)
Commits == 1..NumCommits

EmptyPlan == [c \in {} |-> <<>>]

EmptyDict == [p \in {} |-> <<>>]

\* AmendmentPlan.has_amendments: bool(self._amendments)
HasAmendments(pl) == DOMAIN pl # {}

\* AmendmentPlan._for_commit: the commit's dict, created empty on first touch
ForCommit(pl, commit_oid) ==
    IF commit_oid \in DOMAIN pl THEN pl
    ELSE [c \in (DOMAIN pl) \cup {commit_oid} |->
             IF c = commit_oid THEN EmptyDict ELSE pl[c]]

\* AmendmentPlan.add_amended_range, run to its end: the plan after it and the
\* outcome of replace_lines.  The blob is created (with no amendments) and
\* stored before replace_lines runs.
AddAmendedRange(pl, indexed_range, new_lines) ==
    LET pl1 == ForCommit(pl, indexed_range.rev)
        for_commit == pl1[indexed_range.rev]
        for_blob == IF indexed_range.file \in DOMAIN for_commit
                    THEN for_commit[indexed_range.file] ELSE <<>>
        out == ReplaceLines(for_blob, indexed_range.start, indexed_range.extent, new_lines)
        for_commit2 == [f \in (DOMAIN for_commit) \cup {indexed_range.file} |->
                           IF f = indexed_range.file THEN out.amendments
                           ELSE for_commit[f]]
    IN  [plan |-> [pl1 EXCEPT ![indexed_range.rev] = for_commit2],
         result |-> out.result]

\* the runs of an attribution: attr maps each line of the range to the commit
\* it is attributed to, or to 0 when the parser drops the line (the all-zero
\* hash, or a boundary commit under root_rev).  Lines keep their numbers in
\* the source commit; consecutive lines of one commit form one pair
\* (source_range, target_range).
RECURSIVE BlameRuns(_, _, _, _, _)
BlameRuns(attr, rng, line, run_start, acc) ==
    LET last == rng.start + rng.extent - 1
        close == IF attr[run_start] = 0 THEN acc
                 ELSE Append(acc,
                        <<IndexedRange(attr[run_start], rng.file, run_start, line - run_start),
                          IndexedRange(rng.rev, rng.file, run_start, line - run_start)>>)
    IN  IF line > last THEN close
        ELSE IF attr[line] = attr[run_start]
        THEN BlameRuns(attr, rng, line + 1, run_start, acc)
        ELSE BlameRuns(attr, rng, line + 1, line, close)

\* run_blame(indexed_range)
RunBlame(attr, rng) ==
    IF rng.extent = 0 THEN <<>>
    ELSE BlameRuns(attr, rng, rng.start, rng.start, <<>>)

\* add_hunk_to_plan, the body of its loop for one edit under the attribution
\* attr: the plan after it, whether an attribution query ran, what it
\* returned, and whether add_amended_range raised.  In the branch for several
\* source ranges add_amended_range is called without await: the coroutine
\* object is dropped and its body never runs.
HandleEditSkipsOnlyMissing(pl, h, edit, attr) ==
    IF edit.old_range = NoRange
    THEN [plan |-> pl, queried |-> FALSE, blame |-> <<>>, result |-> "ok"]
    ELSE LET blame_outputs == RunBlame(attr, edit.old_range)
         IN  IF blame_outputs = <<>>
             THEN [plan |-> pl, queried |-> TRUE, blame |-> blame_outputs, result |-> "ok"]
             ELSE IF Len(blame_outputs) > 1
             THEN [plan |-> pl, queried |-> TRUE, blame |-> blame_outputs, result |-> "ok"]
             ELSE LET new_content ==
                          IF edit.new_range = NoRange THEN <<>>
                          ELSE NewRangeContent(h, edit.new_range.start, edit.new_range.extent)
                      r == AddAmendedRange(pl, blame_outputs[1][1], new_content)
                  IN  [plan |-> r.plan, queried |-> TRUE, blame |-> blame_outputs,
                       result |-> r.result]

HandleEdit(pl, h, edit, attr) ==
    IF edit.old_range = NoRange \/ edit.old_range.extent = 0
    THEN [plan |-> pl, queried |-> FALSE, blame |-> <<>>, result |-> "ok"]
    ELSE LET blame_outputs == RunBlame(attr, edit.old_range)
         IN  IF blame_outputs = <<>>
             THEN [plan |-> pl, queried |-> TRUE, blame |-> blame_outputs, result |-> "ok"]
             ELSE IF Len(blame_outputs) > 1
             THEN [plan |-> pl, queried |-> TRUE, blame |-> blame_outputs, result |-> "ok"]
             ELSE LET new_content ==
                          IF edit.new_range = NoRange THEN <<>>
                          ELSE NewRangeContent(h, edit.new_range.start, edit.new_range.extent)
                      r == AddAmendedRange(pl, blame_outputs[1][1], new_content)
                  IN  [plan |-> r.plan, queried |-> TRUE, blame |-> blame_outputs,
                       result |-> r.result]

\* list(plan._amendments): the commits of the plan.  build_partial comes to the
\* same graph in every order of the roots; they are taken in ascending order.
RECURSIVE SortedSeq(_)
SortedSeq(S) ==
    IF S = {} THEN <<>>
    ELSE LET m == CHOOSE x \in S : \A y \in S : x <= y
         IN  <<m>> \o SortedSeq(S \ {m})

\* AmendmentPlan.write_commits up to the first statement of
\* AmendedBranchBuilder.apply: build_partial, then reverse_topo_ordering(head).
\* With no roots add_commits runs `git rev-list --parents --no-walk --`: git
\* either fails (Fatal) or lists nothing (lists_nothing), and then head is
\* unknown to the graph.
WriteCommitsStartReturnsHead(rp, hd, pl, lists_nothing) ==
    IF DOMAIN pl = {} THEN [status |-> "returned", oid |-> hd]
    ELSE [status |-> "rewriting", oid |-> 0]

WriteCommitsStart(rp, hd, pl, lists_nothing) ==
    LET roots == SortedSeq(DOMAIN pl)
    IN  IF roots = <<>> /\ ~lists_nothing THEN [status |-> "Fatal", oid |-> 0]
        ELSE IF hd \notin DOMAIN BuildPartial(rp, hd, roots)
        THEN [status |-> "KeyError", oid |-> 0]
        ELSE [status |-> "rewriting", oid |-> 0]

\* the linear history 1 <- 2 <- ... <- NumCommits
LinearHistory == [c \in Commits |-> IF c = 1 THEN <<>> ELSE <<c - 1>>]

OpsOfLength(n) == [1..n -> DiffLineType]

Hunks ==
    {[old_file |-> of, new_file |-> nf, old_start |-> 1, new_start |-> 1, ops |-> ops] :
        of \in {"f", None}, nf \in {"f", None},
        ops \in UNION {OpsOfLength(n) : n \in 1..MaxOps}}

\* Hunk.__init__ rejects ops that the missing side cannot hold
ValidHunk(h) ==
    /\ h.old_file = None => \A i \in 1..Len(h.ops) : h.ops[i] = "Add"
    /\ h.new_file = None => \A i \in 1..Len(h.ops) : h.ops[i] = "Remove"

\* no staged hunk
NoHunk == [old_file |-> None, new_file |-> None, old_start |-> 0, new_start |-> 0,
           ops |-> <<>>]

NotCalled == [status |-> "not called", oid |-> 0]

NoEdit == [old_range |-> NoRange, new_range |-> NoRange, blame |-> <<>>, handled |-> FALSE]

IdleRepo == repo = LinearHistory /\ head = NumCommits

IdlePlan ==
    /\ hunk = NoHunk
    /\ plan = EmptyPlan
    /\ driver = [pc |-> "idle", edit |-> 1, result |-> NoResult]
    /\ lastEdit = NoEdit
    /\ blameQueries = 0
    /\ writeCommits = NotCalled

\* AmendedBranchBuilder.__init__: nothing rewritten yet
NoRewrittenCommits == [c \in {} |-> <<>>]

NotBuilding == [pc |-> "idle", pos |-> 1, error |-> "none", head_handle |-> 0]

IdleRebuild ==
    /\ commitGraph = EmptyGraph
    /\ rewriteOrder = <<>>
    /\ builder = NotBuilding
    /\ amendedCommits = NoRewrittenCommits
    /\ submitted = <<>>

NoRequest == [commit_handle |-> 0, commit_oid |-> 0, parents |-> <<>>, blobs |-> <<>>]

\* no exception: what the completion future holds until one is set on it
NoException == [type |-> "none", task |-> 0]

NoClient == [pc |-> "none", request |-> NoRequest, target |-> 0, error |-> "none",
             exc |-> NoException, joined |-> FALSE]

NoRewrites == [h \in {} |-> <<>>]

\* GitBackend.__init__ and GitBackendWorker.__init__, launch() included
InitBackend ==
    /\ nextHandle = 1
    /\ queue = <<>>
    /\ unfinished = 0
    /\ commitRewrites = NoRewrites
    /\ blobRewrites = NoRewrites
    /\ completion = "pending"
    /\ completionExc = NoException
    /\ mainTask = "running"
    /\ objects = {}
    /\ issued = <<>>

IdleBackend == InitBackend /\ client = NoClient

InitPlanPart ==
    /\ hunk \in {h \in Hunks : ValidHunk(h)}
    /\ plan = EmptyPlan
    /\ driver = [pc |-> "hunks", edit |-> 1, result |-> NoResult]
    /\ lastEdit = NoEdit
    /\ blameQueries = 0
    /\ writeCommits = NotCalled

\* an AmendedBlob: rewrite_data is 0 for None, else the id of a rewrite handle
AmendedBlob(commit, file, oid, rewrite_data, amends) ==
    [commit |-> commit, file |-> file, oid |-> oid, rewrite_data |-> rewrite_data,
     amendments |-> amends]

NoBlob == AmendedBlob(0, None, 0, 0, <<>>)

\* adjusted_by_diff was not called
NotAdjusted ==
    [pc |-> "idle", diff |-> <<>>, commit |-> 0, file |-> None, oid |-> 0,
     line_map |-> <<>>, result |-> "none", blob |-> NoBlob]

\* a dict without keys
NoEntries == [p \in {} |-> <<>>]

\* _coalesce_amended_blobs was not called
NotCoalescing ==
    [pc |-> "idle", commit_oid |-> 0, new_amendments |-> NoEntries,
     parent_amendments |-> NoEntries, child_blob_oids |-> NoEntries,
     coalesced |-> NoEntries, reconciled |-> {}]

\* AmendedBlob.write has not been called
NotWritten ==
    [pc |-> "idle", lines |-> 0, partial |-> FALSE, output |-> <<>>, raises |-> "none"]

\* add_amended_range has not been called on the plan
NoPlanCall == [pc |-> "idle", calls |-> 0, recorded |-> 0, result |-> "none"]

\* perform_rewrite is not running
NoCli ==
    [pc |-> "idle", update |-> FALSE, old_head |-> 0, new_head |-> 0, shown |-> <<>>,
     prompted |-> FALSE, answer |-> <<>>, ref_updates |-> <<>>]

\* parse_blame has not been called
NoBlame ==
    [pc |-> "idle", attr |-> <<>>, boundary |-> {}, shift |-> 0, include_boundary |-> FALSE,
     range_mapping |-> <<>>, raises |-> "none"]

\* _coalesce_amended_blobs with its diff reconciliation was not called
NotReconciling ==
    [pc |-> "idle", commit_oid |-> 0, parents |-> <<>>, new_amendments |-> NoEntries,
     parent_amendments |-> NoEntries, child_blob_oids |-> NoEntries,
     diff_trees |-> NoEntries, blob_diff |-> <<>>, coalesced |-> NoEntries,
     need_full_reconcile |-> {}, parent |-> 1, entry |-> 1,
     partially_coalesced |-> NoEntries, handled |-> {}, result |-> "none"]

\* _write_tree has not been called
NoTreeWrite ==
    [pc |-> "idle", files |-> {}, rewritten |-> {}, built |-> <<>>,
     result |-> [kind |-> "none", blob |-> <<<<>>, 0>>, of |-> {}]]

\* the identity and date of nobody
NoSignature == [name |-> "", email |-> "", date |-> 0]

\* _write_commit has not been called
NoCommitWrite ==
    [pc |-> "idle",
     commit_info |-> [a |-> NoSignature, c |-> NoSignature, message |-> ""],
     environ |-> NoSignature, tree |-> 0, new_parents |-> <<>>,
     invocation |-> [tree |-> 0, parents |-> <<>>, input |-> "", author |-> NoSignature,
                     committer |-> NoSignature],
     written |-> [tree |-> 0, parents |-> <<>>, message |-> "", author |-> NoSignature,
                  committer |-> NoSignature]]

\* the attributes of the parser before any header was read
NoDiffAttrs ==
    [old_file |-> "None", old_file_seen |-> FALSE, new_file |-> "None",
     new_file_seen |-> FALSE, old_start |-> 0, new_start |-> 0, ops |-> <<>>]

\* no Fatal was raised
NoFatal == [message |-> "none", line |-> 0]

\* parse_diff_hunks has not been called
NoDiffParse ==
    [pc |-> "idle", lines |-> <<>>, state |-> "Initial", attrs |-> NoDiffAttrs,
     yielded |-> <<>>, raised |-> NoFatal]

\* ls_tree was run on no commit
NoTrees == [c \in {} |-> <<>>]

IdleBlob ==
    /\ amendments = <<>>
    /\ lastCall = NoCall
    /\ adjusted = NotAdjusted
    /\ coalescing = NotCoalescing
    /\ blobOutput = NotWritten
    /\ planCall = NoPlanCall
    /\ cli = NoCli
    /\ blameCall = NoBlame
    /\ reconciling = NotReconciling
    /\ treeWrite = NoTreeWrite
    /\ commitWrite = NoCommitWrite
    /\ diffParse = NoDiffParse
    /\ lsTrees = NoTrees

InitPlan ==
    /\ IdleBlob
    /\ repo = LinearHistory
    /\ head = NumCommits
    /\ InitPlanPart
    /\ IdleRebuild
    /\ IdleBackend

\* add_hunk_to_plan: one turn of the loop over hunk.get_edits
AddHunkEdit ==
    /\ driver.pc = "hunks"
    /\ LET edits == GetEdits(hunk, head, 0)
       IN  /\ driver.edit <= Len(edits)
           /\ \E attr \in [1..MaxOps -> 0..NumCommits] :
                LET edit == edits[driver.edit]
                    out == HandleEdit(plan, hunk, edit, attr)
                IN  /\ plan' = out.plan
                    /\ blameQueries' = blameQueries + (IF out.queried THEN 1 ELSE 0)
                    /\ lastEdit' = [old_range |-> edit.old_range,
                                    new_range |-> edit.new_range,
                                    blame |-> out.blame, handled |-> TRUE]
                    /\ driver' = IF out.result # "ok"
                                 THEN [driver EXCEPT !.pc = "raised"]
                                 ELSE [driver EXCEPT !.edit = driver.edit + 1]
    /\ UNCHANGED <<hunk, writeCommits>>
    /\ UNCHANGED <<blobVars, repoVars, rebuildVars, nextHandle, backendVars>>

\* suggest_basic: the loop over the hunks is over
HunksDone ==
    /\ driver.pc = "hunks"
    /\ driver.edit > Len(GetEdits(hunk, head, 0))
    /\ driver' = [driver EXCEPT !.pc = "check"]
    /\ UNCHANGED <<hunk, plan, lastEdit, blameQueries, writeCommits>>
    /\ UNCHANGED <<blobVars, repoVars, rebuildVars, nextHandle, backendVars>>

\* suggest_basic: `if not plan.has_amendments(): return head, head`
SuggestBasicReturnsHead ==
    /\ driver.pc = "check"
    /\ ~HasAmendments(plan)
    /\ driver' = [driver EXCEPT !.pc = "returned", !.result = <<head, head>>]
    /\ UNCHANGED <<hunk, plan, lastEdit, blameQueries, writeCommits>>
    /\ UNCHANGED <<blobVars, repoVars, rebuildVars, nextHandle, backendVars>>

\* suggest_basic: the plan has amendments; write_commits is called
SuggestBasicWrites ==
    /\ driver.pc = "check"
    /\ HasAmendments(plan)
    /\ \E lists_nothing \in BOOLEAN :
          writeCommits' = WriteCommitsStart(repo, head, plan, lists_nothing)
    /\ driver' = [driver EXCEPT !.pc = "write_commits"]
    /\ UNCHANGED <<hunk, plan, lastEdit, blameQueries>>
    /\ UNCHANGED <<blobVars, repoVars, rebuildVars, nextHandle, backendVars>>

\* AmendmentPlan.write_commits called on the plan as it stands by a caller
\* that does not ask has_amendments first
CallWriteCommits ==
    /\ driver.pc = "check"
    /\ \E lists_nothing \in BOOLEAN :
          writeCommits' = WriteCommitsStart(repo, head, plan, lists_nothing)
    /\ driver' = [driver EXCEPT !.pc = "write_commits called"]
    /\ UNCHANGED <<hunk, plan, lastEdit, blameQueries>>
    /\ UNCHANGED <<blobVars, repoVars, rebuildVars, nextHandle, backendVars>>

NextPlan ==
    \/ AddHunkEdit
    \/ HunksDone
    \/ SuggestBasicReturnsHead
    \/ SuggestBasicWrites
    \/ CallWriteCommits

SpecPlan == InitPlan /\ [][NextPlan]_vars

(***************************************************************************)
(* AmendedBranchBuilder (amend.py) against the AbstractApplyStrategy       *)
(* interface.  Amended blobs are followed on one path, "f"; a blob is      *)
(* [file, rewrite_data], rewrite_data 0 standing for None and n > 0 for    *)
(* RewriteHandle('blob', n).  What git reports while the blobs of a commit *)
(* are coalesced is an input of the step: the rewritten parents whose blob *)
(* at the path has the OID of the child's blob (matches), and whether the  *)
(* diff against a parent touches amended lines (overlaps).                 *)
(***************************************************************************)
\* a parent handed to rewrite_commit: an OID, or RewriteHandle('commit', id)
OidRef(c) == [kind |-> "oid", id |-> c]

HandleRef(n) == [kind |-> "handle", id |-> n]

OidRefs(parents) == [i \in 1..Len(parents) |-> OidRef(parents[i])]

\* the repositories: every commit has at most two parents, of smaller number
ParentLists(c) ==
    {<<>>} \cup {<<p>> : p \in 1..(c - 1)}
           \cup {pq \in (1..(c - 1)) \X (1..(c - 1)) : pq[1] # pq[2]}

AllRepos ==
    {rp \in [Commits -> UNION {ParentLists(c) : c \in Commits}] :
        \A c \in Commits : rp[c] \in ParentLists(c)}

\* the plan that amends line 1 of "f" in each commit of roots
PlanFor(roots) == [c \in roots |-> [f \in {"f"} |-> <<AmendmentRecord(1, 1, <<>>)>>]]

\* _get_parent_amendments leaving out the parents that were not rewritten
RECURSIVE GetParentAmendmentsSkipsKept(_, _, _)
GetParentAmendmentsSkipsKept(amended, parents, i) ==
    IF i > Len(parents) THEN [new_parents |-> <<>>, parent_amendments |-> <<>>]
    ELSE LET rest == GetParentAmendmentsSkipsKept(amended, parents, i + 1)
             parent == parents[i]
         IN  IF parent \notin DOMAIN amended
             THEN rest
             ELSE LET rewritten_parent == amended[parent]
                  IN  [new_parents |->
                           <<HandleRef(rewritten_parent.commit_handle)>> \o rest.new_parents,
                       parent_amendments |->
                           [j \in 1..Len(rewritten_parent.blobs) |->
                               [parent |-> parent, blob |-> rewritten_parent.blobs[j]]]
                           \o rest.parent_amendments]

\* AmendedBranchBuilder._get_parent_amendments, from parent i on:
\* parent_amendments["f"] is kept as the list of (parent, blob) in dict order
RECURSIVE GetParentAmendments(_, _, _)
GetParentAmendments(amended, parents, i) ==
    IF i > Len(parents) THEN [new_parents |-> <<>>, parent_amendments |-> <<>>]
    ELSE LET rest == GetParentAmendments(amended, parents, i + 1)
             parent == parents[i]
         IN  IF parent \notin DOMAIN amended
             THEN [new_parents |-> <<OidRef(parent)>> \o rest.new_parents,
                   parent_amendments |-> rest.parent_amendments]
             ELSE LET rewritten_parent == amended[parent]
                  IN  [new_parents |->
                           <<HandleRef(rewritten_parent.commit_handle)>> \o rest.new_parents,
                       parent_amendments |->
                           [j \in 1..Len(rewritten_parent.blobs) |->
                               [parent |-> parent, blob |-> rewritten_parent.blobs[j]]]
                           \o rest.parent_amendments]

\* AmendedBranchBuilder._coalesce_amended_blobs for the path "f".  own: the
\* commit has amendments of its own.  A reused parent blob keeps its
\* rewrite_data (with_meta); a reconciled blob has none (adjusted_by_diff,
\* with_merged_amendments).
CoalesceAmendedBlobs(own, parent_blobs, matches, overlaps) ==
    LET reusable == {i \in 1..Len(parent_blobs) : parent_blobs[i].parent \in matches}
        first == CHOOSE i \in reusable : \A j \in reusable : i <= j
    IN  IF parent_blobs = <<>>
        THEN [result |-> "ok",
              blobs |-> IF own THEN <<[file |-> "f", rewrite_data |-> 0]>> ELSE <<>>]
        ELSE IF ~own /\ reusable # {}
        THEN [result |-> "ok", blobs |-> <<parent_blobs[first].blob>>]
        ELSE IF overlaps
        THEN [result |-> "amendment overlaps diff delta", blobs |-> <<>>]
        ELSE [result |-> "ok", blobs |-> <<[file |-> "f", rewrite_data |-> 0]>>]

\* request_commit_rewrite bumping the handle once for all the blobs of a call
RECURSIVE BlobsWithHandlesOneBump(_, _, _)
BlobsWithHandlesOneBump(blobs, i, next) ==
    IF i > Len(blobs) THEN [blobs |-> <<>>, next_handle |-> next + 1]
    ELSE IF blobs[i].rewrite_data # 0
    THEN LET rest == BlobsWithHandlesOneBump(blobs, i + 1, next)
         IN  [rest EXCEPT !.blobs = <<blobs[i]>> \o @]
    ELSE LET rest == BlobsWithHandlesOneBump(blobs, i + 1, next)
         IN  [rest EXCEPT !.blobs = <<[blobs[i] EXCEPT !.rewrite_data = next]>> \o @]

\* GitBackend.request_commit_rewrite up to the call of schedule_commit_rewrite:
\* a handle for the commit, then one for each blob that has none
RECURSIVE BlobsWithHandles(_, _, _)
BlobsWithHandles(blobs, i, next) ==
    IF i > Len(blobs) THEN [blobs |-> <<>>, next_handle |-> next]
    ELSE IF blobs[i].rewrite_data # 0
    THEN LET rest == BlobsWithHandles(blobs, i + 1, next)
         IN  [rest EXCEPT !.blobs = <<blobs[i]>> \o @]
    ELSE LET rest == BlobsWithHandles(blobs, i + 1, next + 1)
         IN  [rest EXCEPT !.blobs = <<[blobs[i] EXCEPT !.rewrite_data = next]>> \o @]

RequestCommitRewrite(next, commit_oid, parents, blobs) ==
    LET with_handles == BlobsWithHandles(blobs, 1, next + 1)
    IN  [request |-> [commit_handle |-> next, commit_oid |-> commit_oid,
                      parents |-> parents, blobs |-> with_handles.blobs],
         next_handle |-> with_handles.next_handle]

InitRebuild ==
    /\ IdleBlob
    /\ repo \in AllRepos
    /\ head \in Commits
    /\ \E roots \in SUBSET AncestorsOrSelf(repo, head) :
          /\ roots # {}
          /\ plan = PlanFor(roots)
    /\ hunk = NoHunk
    /\ driver = [pc |-> "write_commits", edit |-> 1, result |-> NoResult]
    /\ lastEdit = NoEdit
    /\ blameQueries = 0
    /\ writeCommits = [status |-> "rewriting", oid |-> 0]
    /\ commitGraph = EmptyGraph
    /\ rewriteOrder = <<>>
    /\ builder = [NotBuilding EXCEPT !.pc = "write"]
    /\ amendedCommits = NoRewrittenCommits
    /\ submitted = <<>>
    /\ IdleBackend

\* AmendedBranchBuilder.write: build_partial, then apply() up to its loop
BuilderWrite ==
    /\ builder.pc = "write"
    /\ LET commit_graph == BuildPartial(repo, head, SortedSeq(DOMAIN plan))
       IN  /\ commitGraph' = commit_graph
           /\ IF head \notin DOMAIN commit_graph
              THEN /\ rewriteOrder' = <<>>
                   /\ builder' = [builder EXCEPT !.pc = "raised", !.error = "KeyError"]
              ELSE /\ rewriteOrder' = ReverseTopoOrdering(commit_graph, head)
                   /\ builder' = [builder EXCEPT !.pc = "apply"]
    /\ UNCHANGED <<amendedCommits, submitted, nextHandle>>
    /\ UNCHANGED <<blobVars, repoVars, planVars, backendVars>>

\* AmendedBranchBuilder._start_commit_rewrite for the next commit of the
\* rewriteOrder; rewrite_commit answers with the handles request_commit_rewrite
\* issues
StartCommitRewrite ==
    /\ builder.pc = "apply"
    /\ builder.pos <= Len(rewriteOrder)
    /\ LET commit_oid == rewriteOrder[builder.pos]
           own == commit_oid \in DOMAIN plan
           parents == commitGraph[commit_oid]
           pa == GetParentAmendments(amendedCommits, parents, 1)
       IN  IF pa.new_parents = OidRefs(parents) /\ ~own
           THEN /\ builder' = [builder EXCEPT !.pc = "raised", !.error = "AssertionError"]
                /\ UNCHANGED <<amendedCommits, submitted, nextHandle>>
           ELSE \E matches \in SUBSET (SeqRange(parents) \cap DOMAIN amendedCommits),
                   overlaps \in BOOLEAN :
                  LET coalesced == CoalesceAmendedBlobs(own, pa.parent_amendments,
                                                        matches, overlaps)
                      rw == RequestCommitRewrite(nextHandle, commit_oid, pa.new_parents,
                                                 coalesced.blobs)
                  IN  IF coalesced.result # "ok"
                      THEN /\ builder' = [builder EXCEPT !.pc = "raised",
                                                         !.error = coalesced.result]
                           /\ UNCHANGED <<amendedCommits, submitted, nextHandle>>
                      ELSE /\ nextHandle' = rw.next_handle
                           /\ submitted' = Append(submitted, rw.request)
                           /\ amendedCommits' =
                                [c \in (DOMAIN amendedCommits) \cup {commit_oid} |->
                                    IF c = commit_oid
                                    THEN [commit_oid |-> commit_oid,
                                          commit_handle |-> rw.request.commit_handle,
                                          blobs |-> rw.request.blobs]
                                    ELSE amendedCommits[c]]
                           /\ builder' = [builder EXCEPT !.pos = @ + 1]
    /\ UNCHANGED <<commitGraph, rewriteOrder>>
    /\ UNCHANGED <<blobVars, repoVars, planVars, backendVars>>

\* AmendedBranchBuilder.apply after its loop: the handle of head is resolved,
\* the strategy joined
ApplyReturns ==
    /\ builder.pc = "apply"
    /\ builder.pos > Len(rewriteOrder)
    /\ builder' = [builder EXCEPT !.pc = "returned",
                                  !.head_handle = amendedCommits[head].commit_handle]
    /\ UNCHANGED <<commitGraph, rewriteOrder, amendedCommits, submitted, nextHandle>>
    /\ UNCHANGED <<blobVars, repoVars, planVars, backendVars>>

NextRebuild ==
    \/ BuilderWrite
    \/ StartCommitRewrite
    \/ ApplyReturns

SpecRebuild == InitRebuild /\ [][NextRebuild]_vars

(***************************************************************************)
(* GitSubprocessApplyStrategy (apply_rewrite.py): GitBackend, the worker   *)
(* GitBackendWorker._run, the commit tasks _process_rewrite_request and    *)
(* the blob writes, run by one event loop.  A step of the model is what a  *)
(* coroutine does between two suspension points; the loop may run any      *)
(* coroutine that is able to go on.  The caller of the strategy is         *)
(* AmendedBranchBuilder under suggest_basic, or any other user of the      *)
(* interface: it calls rewrite_commit with parents and blobs it was given  *)
(* handles for, resolve_handle and join, and on an exception it calls      *)
(* cancel() as suggest_basic does.                                         *)
(*                                                                         *)
(* A future is "pending", done or "cancelled".  A commit task is at        *)
(*   "input"   awaiting its input future                                   *)
(*   "blobs"   awaiting the blobs, then cat_commit and _write_tree         *)
(*   "parents" awaiting the parents' tasks, then _write_commit             *)
(*   "done"    returned the new OID        "cancelled"                     *)
(***************************************************************************)
\* the handles of commits and blobs the caller holds
IssuedCommitHandles == {issued[i].commit_handle : i \in 1..Len(issued)}

IssuedBlobs == UNION {SeqRange(issued[i].blobs) : i \in 1..Len(issued)}

\* the parents a caller passes: handles of commits it submitted before
ParentChoices ==
    {<<>>} \cup {<<HandleRef(h)>> : h \in IssuedCommitHandles}
           \cup {<<HandleRef(hh[1]), HandleRef(hh[2])>> :
                    hh \in {x \in IssuedCommitHandles \X IssuedCommitHandles : x[1] < x[2]}}

\* the blobs a caller passes: a blob not yet given a handle, or one of a parent
BlobChoices == {<<[file |-> "f", rewrite_data |-> 0]>>} \cup {<<b>> : b \in IssuedBlobs}

HandleParents(data) ==
    {data.parents[i].id : i \in {j \in 1..Len(data.parents) : data.parents[j].kind = "handle"}}

BlobHandles(data) == {data.blobs[i].rewrite_data : i \in 1..Len(data.blobs)}

\* GitBackendWorker._spawn_commit_rewrite_task with a new input future: the
\* entry of the handle is set to the new task; tasks counts the tasks created
\* for the handle
SpawnCommitRewriteTask(cr, handle) ==
    [h \in (DOMAIN cr) \cup {handle} |->
        IF h = handle
        THEN [input |-> "pending", data |-> NoRequest, task |-> "input",
              tasks |-> IF handle \in DOMAIN cr THEN cr[handle].tasks + 1 ELSE 1]
        ELSE cr[h]]

\* GitBackendWorker.cancel past the completion future: the worker, the blob
\* futures, the input futures and the commit tasks that are not done
CancelRewrites ==
    /\ mainTask' = "cancelled"
    /\ blobRewrites' = [b \in DOMAIN blobRewrites |->
                           IF blobRewrites[b].state = "pending"
                           THEN [blobRewrites[b] EXCEPT !.state = "cancelled"]
                           ELSE blobRewrites[b]]
    /\ commitRewrites' = [h \in DOMAIN commitRewrites |->
                             [commitRewrites[h] EXCEPT
                                 !.input = IF @ = "pending" THEN "cancelled" ELSE @,
                                 !.task = IF @ = "done" THEN @ ELSE "cancelled"]]

\* GitBackendWorker.cancel
Cancel ==
    /\ completion' = IF completion = "pending" THEN "result" ELSE completion
    /\ completionExc' = completionExc
    /\ CancelRewrites

\* _die_on_error without its test of _completion.done()
DieOnErrorReplacesException(exc) ==
    /\ completion' = "exception"
    /\ completionExc' = exc
    /\ CancelRewrites

\* GitBackendWorker._die_on_error: the coroutine of a task raised exc
DieOnError(exc) ==
    /\ completion' = IF completion = "pending" THEN "exception" ELSE completion
    /\ completionExc' = IF completion = "pending" THEN exc ELSE completionExc
    /\ CancelRewrites

InitSpec ==
    /\ IdleBlob
    /\ IdleRepo
    /\ IdlePlan
    /\ IdleRebuild
    /\ InitBackend
    /\ client = [NoClient EXCEPT !.pc = "ready"]

\* rewrite_commit is called: request_commit_rewrite issues the handles and
\* schedule_commit_rewrite starts the put on the queue
ClientRewriteCommit ==
    /\ client.pc = "ready"
    /\ Len(issued) < MaxRequests
    /\ \E parents \in ParentChoices, blobs \in BlobChoices :
          LET rw == RequestCommitRewrite(nextHandle, Len(issued) + 1, parents, blobs)
          IN  /\ nextHandle' = rw.next_handle
              /\ client' = [client EXCEPT !.pc = "rewrite_commit", !.request = rw.request]
    /\ UNCHANGED <<queue, unfinished, commitRewrites, blobRewrites, completion, completionExc, mainTask,
                   objects, issued>>
    /\ UNCHANGED <<blobVars, repoVars, planVars, rebuildVars>>

\* Queue.put without the wait for a free slot
PutCompletesWithoutWaiting ==
    /\ client.pc = "rewrite_commit"
    /\ completion = "pending"
    /\ queue' = Append(queue, client.request)
    /\ unfinished' = unfinished + 1
    /\ issued' = Append(issued, client.request)
    /\ client' = [client EXCEPT !.pc = "ready", !.request = NoRequest]
    /\ UNCHANGED <<nextHandle, commitRewrites, blobRewrites, completion, completionExc, mainTask, objects>>
    /\ UNCHANGED <<blobVars, repoVars, planVars, rebuildVars>>

\* the put finds a free slot and rewrite_commit returns the handles
PutCompletes ==
    /\ client.pc = "rewrite_commit"
    /\ completion = "pending"
    /\ Len(queue) < QueueCapacity
    /\ queue' = Append(queue, client.request)
    /\ unfinished' = unfinished + 1
    /\ issued' = Append(issued, client.request)
    /\ client' = [client EXCEPT !.pc = "ready", !.request = NoRequest]
    /\ UNCHANGED <<nextHandle, commitRewrites, blobRewrites, completion, completionExc, mainTask, objects>>
    /\ UNCHANGED <<blobVars, repoVars, planVars, rebuildVars>>

\* resolve_handle is called on a handle rewrite_commit returned;
\* resolve_commit_handle spawns the task when the handle has none
ClientResolveHandle ==
    /\ client.pc = "ready"
    /\ \E handle \in IssuedCommitHandles :
          /\ commitRewrites' = IF handle \in DOMAIN commitRewrites THEN commitRewrites
                               ELSE SpawnCommitRewriteTask(commitRewrites, handle)
          /\ client' = [client EXCEPT !.pc = "resolve_handle", !.target = handle]
    /\ UNCHANGED <<nextHandle, queue, unfinished, blobRewrites, completion, completionExc, mainTask,
                   objects, issued>>
    /\ UNCHANGED <<blobVars, repoVars, planVars, rebuildVars>>

\* the task of the handle is done and resolve_handle returns its OID
ResolveHandleReturns ==
    /\ client.pc = "resolve_handle"
    /\ completion = "pending"
    /\ commitRewrites[client.target].task = "done"
    /\ client' = [client EXCEPT !.pc = "ready", !.target = 0]
    /\ UNCHANGED <<nextHandle, queue, unfinished, commitRewrites, blobRewrites, completion, completionExc,
                   mainTask, objects, issued>>
    /\ UNCHANGED <<blobVars, repoVars, planVars, rebuildVars>>

\* join is called
ClientJoin ==
    /\ client.pc = "ready"
    /\ client' = [client EXCEPT !.pc = "join"]
    /\ UNCHANGED <<nextHandle, queue, unfinished, commitRewrites, blobRewrites, completion, completionExc,
                   mainTask, objects, issued>>
    /\ UNCHANGED <<blobVars, repoVars, planVars, rebuildVars>>

\* GitBackend.join: Queue.join() is over once every request put was marked
\* task_done(); then cancel()
JoinReturns ==
    /\ client.pc = "join"
    /\ completion = "pending"
    /\ unfinished = 0
    /\ Cancel
    /\ client' = [client EXCEPT !.pc = "ready", !.joined = TRUE]
    /\ UNCHANGED <<nextHandle, queue, unfinished, objects, issued>>
    /\ UNCHANGED <<blobVars, repoVars, planVars, rebuildVars>>

\* _propagate_fatal_exc finds the completion future done: the call raises its
\* exception, or RuntimeError('future is pending after join') after an orderly
\* exit; suggest_basic answers an exception with cancel()
CallRaises ==
    /\ client.pc \in {"rewrite_commit", "resolve_handle", "join"}
    /\ completion # "pending"
    /\ client' = [client EXCEPT !.pc = "raised",
                                !.error = IF completion = "exception" THEN completionExc.type
                                          ELSE "RuntimeError",
                                !.exc = completionExc]
    /\ Cancel
    /\ UNCHANGED <<nextHandle, queue, unfinished, objects, issued>>
    /\ UNCHANGED <<blobVars, repoVars, planVars, rebuildVars>>

\* _coalesce_amended_blobs raises on a commit with a rewritten parent, between
\* two rewrite_commit calls of the rebuilder; suggest_basic answers with cancel()
CoalesceRaises ==
    /\ client.pc = "ready"
    /\ issued # <<>>
    /\ ~client.joined
    /\ client' = [client EXCEPT !.pc = "raised", !.error = "amendment overlaps diff delta"]
    /\ Cancel
    /\ UNCHANGED <<nextHandle, queue, unfinished, objects, issued>>
    /\ UNCHANGED <<blobVars, repoVars, planVars, rebuildVars>>

\* _run without its closing task_done()
WorkerRunWithoutTaskDone ==
    /\ mainTask = "running"
    /\ queue # <<>>
    /\ LET request == Head(queue)
           handle == request.commit_handle
           spawned == IF handle \in DOMAIN commitRewrites THEN commitRewrites
                      ELSE SpawnCommitRewriteTask(commitRewrites, handle)
       IN  commitRewrites' =
              IF spawned[handle].input = "cancelled" THEN spawned
              ELSE [spawned EXCEPT ![handle].input = "set", ![handle].data = request]
    /\ queue' = Tail(queue)
    /\ UNCHANGED <<nextHandle, unfinished, blobRewrites, completion, completionExc, mainTask, objects, client,
                   issued>>
    /\ UNCHANGED <<blobVars, repoVars, planVars, rebuildVars>>

\* _run without the lookup of the task resolve_commit_handle registered
WorkerRunAlwaysSpawns ==
    /\ mainTask = "running"
    /\ queue # <<>>
    /\ LET request == Head(queue)
           handle == request.commit_handle
           spawned == SpawnCommitRewriteTask(commitRewrites, handle)
       IN  commitRewrites' =
              IF spawned[handle].input = "cancelled" THEN spawned
              ELSE [spawned EXCEPT ![handle].input = "set", ![handle].data = request]
    /\ queue' = Tail(queue)
    /\ unfinished' = unfinished - 1
    /\ UNCHANGED <<nextHandle, blobRewrites, completion, completionExc, mainTask, objects, client, issued>>
    /\ UNCHANGED <<blobVars, repoVars, planVars, rebuildVars>>

\* GitBackendWorker._run, one turn of its loop
WorkerRun ==
    /\ mainTask = "running"
    /\ queue # <<>>
    /\ LET request == Head(queue)
           handle == request.commit_handle
           spawned == IF handle \in DOMAIN commitRewrites THEN commitRewrites
                      ELSE SpawnCommitRewriteTask(commitRewrites, handle)
       IN  commitRewrites' =
              IF spawned[handle].input = "cancelled" THEN spawned
              ELSE [spawned EXCEPT ![handle].input = "set", ![handle].data = request]
    /\ queue' = Tail(queue)
    /\ unfinished' = unfinished - 1
    /\ UNCHANGED <<nextHandle, blobRewrites, completion, completionExc, mainTask, objects, client, issued>>
    /\ UNCHANGED <<blobVars, repoVars, planVars, rebuildVars>>

\* _resolve_blob without the lookup of an existing future: every task
\* registers a future of its own and writes the blob
TaskGetsInputNoFutureReuse ==
    \E handle \in DOMAIN commitRewrites :
       /\ commitRewrites[handle].task = "input"
       /\ commitRewrites[handle].input = "set"
       /\ commitRewrites' = [commitRewrites EXCEPT ![handle].task = "blobs"]
       /\ blobRewrites' =
             [b \in (DOMAIN blobRewrites) \cup BlobHandles(commitRewrites[handle].data) |->
                 IF b \in BlobHandles(commitRewrites[handle].data)
                 THEN [state |-> "pending", writer |-> handle]
                 ELSE blobRewrites[b]]
       /\ UNCHANGED <<nextHandle, queue, unfinished, completion, completionExc, mainTask, objects, client,
                      issued>>
       /\ UNCHANGED <<blobVars, repoVars, planVars, rebuildVars>>

\* _process_rewrite_request receives its input and starts _resolve_blob for
\* each blob: a handle without a future gets one, and this task writes the blob
TaskGetsInput ==
    \E handle \in DOMAIN commitRewrites :
       /\ commitRewrites[handle].task = "input"
       /\ commitRewrites[handle].input = "set"
       /\ commitRewrites' = [commitRewrites EXCEPT ![handle].task = "blobs"]
       /\ blobRewrites' =
             [b \in (DOMAIN blobRewrites) \cup BlobHandles(commitRewrites[handle].data) |->
                 IF b \in DOMAIN blobRewrites THEN blobRewrites[b]
                 ELSE [state |-> "pending", writer |-> handle]]
       /\ UNCHANGED <<nextHandle, queue, unfinished, completion, completionExc, mainTask, objects, client,
                      issued>>
       /\ UNCHANGED <<blobVars, repoVars, planVars, rebuildVars>>

\* _write_blob of the task that holds the future of a blob: hash-object -w
BlobWritten ==
    \E b \in DOMAIN blobRewrites :
       /\ blobRewrites[b].state = "pending"
       /\ commitRewrites[blobRewrites[b].writer].task = "blobs"
       /\ objects' = objects \cup {[type |-> "blob", handle |-> b]}
       /\ blobRewrites' = [blobRewrites EXCEPT ![b].state = "done"]
       /\ UNCHANGED <<nextHandle, queue, unfinished, commitRewrites, completion, completionExc, mainTask,
                      client, issued>>
       /\ UNCHANGED <<blobVars, repoVars, planVars, rebuildVars>>

\* the blobs of a task are resolved: cat_commit, then _write_tree writes the
\* trees; _resolve_parents raises KeyError on a handle without a task
TaskWritesTree ==
    \E handle \in DOMAIN commitRewrites :
       LET data == commitRewrites[handle].data
       IN  /\ commitRewrites[handle].task = "blobs"
           /\ \A b \in BlobHandles(data) : blobRewrites[b].state = "done"
           /\ objects' = IF data.blobs = <<>> THEN objects
                         ELSE objects \cup {[type |-> "tree", handle |-> handle]}
           /\ IF HandleParents(data) \subseteq DOMAIN commitRewrites
              THEN /\ commitRewrites' = [commitRewrites EXCEPT ![handle].task = "parents"]
                   /\ UNCHANGED <<blobRewrites, completion, completionExc, mainTask>>
              ELSE DieOnError([type |-> "KeyError", task |-> handle])
           /\ UNCHANGED <<nextHandle, queue, unfinished, client, issued>>
           /\ UNCHANGED <<blobVars, repoVars, planVars, rebuildVars>>

\* _write_commit without the gather over _resolve_parents
TaskWritesCommitWithoutParents ==
    \E handle \in DOMAIN commitRewrites :
       /\ commitRewrites[handle].task = "parents"
       /\ objects' = objects \cup {[type |-> "commit", handle |-> handle]}
       /\ commitRewrites' = [commitRewrites EXCEPT ![handle].task = "done"]
       /\ UNCHANGED <<nextHandle, queue, unfinished, blobRewrites, completion, completionExc, mainTask,
                      client, issued>>
       /\ UNCHANGED <<blobVars, repoVars, planVars, rebuildVars>>

\* the parents of a task are resolved: _write_commit runs commit-tree
TaskWritesCommit ==
    \E handle \in DOMAIN commitRewrites :
       /\ commitRewrites[handle].task = "parents"
       /\ \A parent \in HandleParents(commitRewrites[handle].data) :
             commitRewrites[parent].task = "done"
       /\ objects' = objects \cup {[type |-> "commit", handle |-> handle]}
       /\ commitRewrites' = [commitRewrites EXCEPT ![handle].task = "done"]
       /\ UNCHANGED <<nextHandle, queue, unfinished, blobRewrites, completion, completionExc, mainTask,
                      client, issued>>
       /\ UNCHANGED <<blobVars, repoVars, planVars, rebuildVars>>

\* a git subprocess of a task fails (call_git raises Fatal): while it writes a
\* blob or builds the tree, or in commit-tree
TaskFails ==
    \E handle \in DOMAIN commitRewrites :
       LET data == commitRewrites[handle].data
       IN  /\ \/ /\ commitRewrites[handle].task = "blobs"
                 /\ \/ \E b \in BlobHandles(data) :
                          /\ blobRewrites[b].state = "pending"
                          /\ blobRewrites[b].writer = handle
                    \/ \A b \in BlobHandles(data) : blobRewrites[b].state = "done"
              \/ /\ commitRewrites[handle].task = "parents"
                 /\ \A parent \in HandleParents(data) : commitRewrites[parent].task = "done"
           /\ DieOnError([type |-> "Fatal", task |-> handle])
           /\ UNCHANGED <<nextHandle, queue, unfinished, objects, client, issued>>
           /\ UNCHANGED <<blobVars, repoVars, planVars, rebuildVars>>

\* the CancelledError thrown into a cancelled commit task reaches the
\* _die_on_error around its coroutine
CancelledTaskRaises ==
    \E handle \in DOMAIN commitRewrites :
       /\ commitRewrites[handle].task = "cancelled"
       /\ ~(completion = "exception" /\ completionExc.task = handle)
       /\ DieOnError([type |-> "CancelledError", task |-> handle])
       /\ UNCHANGED <<nextHandle, queue, unfinished, objects, client, issued>>
       /\ UNCHANGED <<blobVars, repoVars, planVars, rebuildVars>>

Next ==
    \/ ClientRewriteCommit
    \/ PutCompletes
    \/ ClientResolveHandle
    \/ ResolveHandleReturns
    \/ ClientJoin
    \/ JoinReturns
    \/ CallRaises
    \/ CoalesceRaises
    \/ WorkerRun
    \/ TaskGetsInput
    \/ BlobWritten
    \/ TaskWritesTree
    \/ TaskWritesCommit
    \/ TaskFails
    \/ CancelledTaskRaises

Spec == InitSpec /\ [][Next]_vars

\* the event loop resumes a caller whose _propagate_fatal_exc wait is over
\* because the completion future is done
FairCallers == WF_vars(CallRaises)

SpecFair == InitSpec /\ [][Next]_vars /\ FairCallers

(***************************************************************************)
(* AmendedBranchBuilder.apply driving GitSubprocessApplyStrategy: the      *)
(* commits of the ordering are submitted one by one, the handle of head is *)
(* resolved, the strategy joined.  No git subprocess fails and no          *)
(* reconciliation raises.  amended_commits is read off what rewrite_commit *)
(* returned so far (issued); the slices are those of at most MaxRequests   *)
(* submissions.                                                            *)
(***************************************************************************)
\* AmendedBranchBuilder.amended_commits after the calls that returned: the
\* entry of a commit is the one stored last
AmendedCommitsOf(returned) ==
    [c \in {returned[i].commit_oid : i \in 1..Len(returned)} |->
        LET last == CHOOSE i \in 1..Len(returned) :
                       /\ returned[i].commit_oid = c
                       /\ \A j \in (i + 1)..Len(returned) : returned[j].commit_oid # c
        IN  [commit_oid |-> c, commit_handle |-> returned[last].commit_handle,
             blobs |-> returned[last].blobs]]

\* the linear history whose last commit also merges its grandparent
MergeHistory ==
    [c \in Commits |->
        IF c = NumCommits /\ c > 2 THEN <<c - 2, c - 1>> ELSE LinearHistory[c]]

InitLive ==
    /\ IdleBlob
    /\ repo \in {LinearHistory, MergeHistory}
    /\ head \in Commits
    /\ \E roots \in SUBSET AncestorsOrSelf(repo, head) :
          /\ roots # {}
          /\ plan = PlanFor(roots)
          /\ commitGraph = BuildPartial(repo, head, SortedSeq(roots))
    /\ rewriteOrder = ReverseTopoOrdering(commitGraph, head)
    /\ Len(rewriteOrder) <= MaxRequests
    /\ hunk = NoHunk
    /\ driver = [pc |-> "write_commits", edit |-> 1, result |-> NoResult]
    /\ lastEdit = NoEdit
    /\ blameQueries = 0
    /\ writeCommits = [status |-> "rewriting", oid |-> 0]
    /\ builder = [NotBuilding EXCEPT !.pc = "apply"]
    /\ amendedCommits = NoRewrittenCommits
    /\ submitted = <<>>
    /\ InitBackend
    /\ client = [NoClient EXCEPT !.pc = "ready"]

\* _start_commit_rewrite for the next commit of the ordering, up to the put
\* of its request on the queue
ApplyStartCommitRewrite ==
    /\ builder.pc = "apply"
    /\ client.pc = "ready"
    /\ Len(issued) < Len(rewriteOrder)
    /\ LET commit_oid == rewriteOrder[Len(issued) + 1]
           amended == AmendedCommitsOf(issued)
           own == commit_oid \in DOMAIN plan
           parents == commitGraph[commit_oid]
           pa == GetParentAmendments(amended, parents, 1)
       IN  /\ pa.new_parents # OidRefs(parents) \/ own
           /\ \E matches \in SUBSET (SeqRange(parents) \cap DOMAIN amended) :
                 LET coalesced == CoalesceAmendedBlobs(own, pa.parent_amendments,
                                                       matches, FALSE)
                     rw == RequestCommitRewrite(nextHandle, commit_oid, pa.new_parents,
                                                coalesced.blobs)
                 IN  /\ nextHandle' = rw.next_handle
                     /\ client' = [client EXCEPT !.pc = "rewrite_commit",
                                                 !.request = rw.request]
    /\ UNCHANGED <<queue, unfinished, commitRewrites, blobRewrites, completion, completionExc, mainTask,
                   objects, issued>>
    /\ UNCHANGED <<blobVars, repoVars, planVars, rebuildVars>>

\* apply() after its loop: resolve_handle(head_handle) is called
ApplyResolveHead ==
    /\ builder.pc = "apply"
    /\ client.pc = "ready"
    /\ Len(issued) = Len(rewriteOrder)
    /\ LET head_handle == AmendedCommitsOf(issued)[head].commit_handle
       IN  /\ commitRewrites' = IF head_handle \in DOMAIN commitRewrites THEN commitRewrites
                                 ELSE SpawnCommitRewriteTask(commitRewrites, head_handle)
           /\ client' = [client EXCEPT !.pc = "resolve_handle", !.target = head_handle]
           /\ builder' = [builder EXCEPT !.pc = "resolve", !.head_handle = head_handle]
    /\ UNCHANGED <<nextHandle, queue, unfinished, blobRewrites, completion, completionExc, mainTask,
                   objects, issued>>
    /\ UNCHANGED <<commitGraph, rewriteOrder, amendedCommits, submitted>>
    /\ UNCHANGED <<blobVars, repoVars, planVars>>

\* apply(): resolve_handle returned, join() is called
ApplyJoin ==
    /\ builder.pc = "resolve"
    /\ client.pc = "ready"
    /\ client' = [client EXCEPT !.pc = "join"]
    /\ builder' = [builder EXCEPT !.pc = "join"]
    /\ UNCHANGED <<nextHandle, queue, unfinished, commitRewrites, blobRewrites, completion, completionExc,
                   mainTask, objects, issued>>
    /\ UNCHANGED <<commitGraph, rewriteOrder, amendedCommits, submitted>>
    /\ UNCHANGED <<blobVars, repoVars, planVars>>

\* apply(): join() returned, new_head is returned
ApplyReturnsNewHead ==
    /\ builder.pc = "join"
    /\ client.pc = "ready"
    /\ client.joined
    /\ builder' = [builder EXCEPT !.pc = "returned"]
    /\ UNCHANGED <<nextHandle, backendVars>>
    /\ UNCHANGED <<commitGraph, rewriteOrder, amendedCommits, submitted>>
    /\ UNCHANGED <<blobVars, repoVars, planVars>>

NextLive ==
    \/ ApplyStartCommitRewrite
    \/ PutCompletes
    \/ ApplyResolveHead
    \/ ResolveHandleReturns
    \/ ApplyJoin
    \/ JoinReturns
    \/ ApplyReturnsNewHead
    \/ WorkerRun
    \/ TaskGetsInput
    \/ BlobWritten
    \/ TaskWritesTree
    \/ TaskWritesCommit

\* the event loop runs a coroutine that is able to go on, and every git
\* subprocess ends: as long as some step can be taken, one is taken
FairLive == WF_vars(NextLive)

SpecLive == InitLive /\ [][NextLive]_vars /\ FairLive






InitBlob ==
    /\ amendments = <<>>
    /\ lastCall = NoCall
    /\ adjusted = NotAdjusted
    /\ coalescing = NotCoalescing
    /\ blobOutput = NotWritten
    /\ planCall = NoPlanCall
    /\ cli = NoCli
    /\ blameCall = NoBlame
    /\ reconciling = NotReconciling
    /\ treeWrite = NoTreeWrite
    /\ commitWrite = NoCommitWrite
    /\ diffParse = NoDiffParse
    /\ lsTrees = NoTrees
    /\ IdleRepo
    /\ IdlePlan
    /\ IdleRebuild
    /\ IdleBackend

\* one call blob.replace_lines(start, extent, new_lines); a rejected call raises
\* and leaves the blob as it was
CallReplaceLines ==
    \E start \in 1..MaxLine, extent \in 0..MaxExtent, new_lines \in Replacements :
        LET out == ReplaceLines(amendments, start, extent, new_lines)
        IN  /\ UNCHANGED <<blobOutput, planCall, cli, blameCall, reconciling, treeWrite, commitWrite, diffParse, lsTrees, repoVars, planVars, rebuildVars, nextHandle, backendVars>>
            /\ Len(out.amendments) <= MaxRecords
            /\ amendments' = out.amendments
            /\ lastCall' = [start |-> start, extent |-> extent, replacement |-> new_lines,
                            before |-> amendments, result |-> out.result]
            /\ UNCHANGED <<adjusted, coalescing>>

NextBlob == CallReplaceLines

SpecBlob == InitBlob /\ [][NextBlob]_vars

(***************************************************************************)
(* AmendedBlob.adjusted_by_diff (amend.py): the amendments of a blob are   *)
(* carried over the diff from the blob to its version in a child commit.   *)
(***************************************************************************)
\* the lists replace_lines builds in at most n accepted calls
RECURSIVE ListsAfter(_)
ListsAfter(n) ==
    IF n = 0 THEN {<<>>}
    ELSE LET prev == ListsAfter(n - 1)
         IN  prev \cup
             {ReplaceLines(a, start, extent, new_lines).amendments :
                 a \in prev, start \in 1..MaxLine, extent \in 0..MaxExtent,
                 new_lines \in Replacements}

\* the number of lines a hunk spans in the old and in the new file
OldLength(h) == Cardinality({i \in 1..Len(h.ops) : h.ops[i] # "Add"})

NewLength(h) == Cardinality({i \in 1..Len(h.ops) : h.ops[i] # "Remove"})

\* the diffs parse_diff_hunks yields: no hunk, one hunk, or two hunks of one
\* file that span MaxOps lines with the unchanged line between them
FileHunks == {h \in Hunks : h.old_file = "f" /\ h.new_file = "f"}

Diffs ==
    {<<>>}
      \cup {<<h>> : h \in {x \in Hunks : ValidHunk(x)}}
      \cup {<<h[1], [h[2] EXCEPT !.old_start = h[1].old_start + OldLength(h[1]) + 1,
                                  !.new_start = h[1].new_start + NewLength(h[1]) + 1]>> :
                h \in {x \in FileHunks \X FileHunks :
                         Len(x[1].ops) + 1 + Len(x[2].ops) <= MaxOps}}

\* chain.from_iterable(h.map_lines() for h in diff_hunks)
RECURSIVE ChainMapLines(_)
ChainMapLines(diff_hunks) ==
    IF diff_hunks = <<>> THEN <<>>
    ELSE MapLines(Head(diff_hunks)) \o ChainMapLines(Tail(diff_hunks))

\* what _stream_amendments_and_diff_hunks yields
AmendEntry(amend) == [kind |-> "amend", amend |-> amend, line_map |-> FileLineMapping(0, 0, 0, 0)]

LineMapEntry(line_map) == [kind |-> "line_map", amend |-> AmendmentRecord(0, 0, <<>>), line_map |-> line_map]

\* _stream_amendments_and_diff_hunks without the test of an amendment that
\* starts before the mapping
RECURSIVE StreamWithoutEndCheck(_, _, _, _)
StreamWithoutEndCheck(amends, i, line_maps, j) ==
    IF i <= Len(amends) /\ j <= Len(line_maps)
    THEN LET amend == amends[i]
             line_map == line_maps[j]
         IN  IF amend.start < line_map.old_start
             THEN LET rest == StreamWithoutEndCheck(amends, i + 1, line_maps, j)
                  IN  [rest EXCEPT !.entries = <<AmendEntry(amend)>> \o @]
             ELSE IF line_map.old_start + line_map.old_extent > amend.start
                  THEN [entries |-> <<>>, raises |-> TRUE]
                  ELSE LET rest == StreamWithoutEndCheck(amends, i, line_maps, j + 1)
                       IN  [rest EXCEPT !.entries = <<LineMapEntry(line_map)>> \o @]
    ELSE IF i <= Len(amends)
    THEN [entries |-> [k \in 1..(Len(amends) - i + 1) |-> AmendEntry(amends[i + k - 1])],
          raises |-> FALSE]
    ELSE [entries |-> [k \in 1..(Len(line_maps) - j + 1) |->
                          LineMapEntry(line_maps[j + k - 1])],
          raises |-> FALSE]

\* _stream_amendments_and_diff_hunks that ends with `yield from amend_iter`
\* alone, without the amendment it holds
RECURSIVE StreamDropsHeldAmendment(_, _, _, _)
StreamDropsHeldAmendment(amends, i, line_maps, j) ==
    IF i <= Len(amends) /\ j <= Len(line_maps)
    THEN LET amend == amends[i]
             line_map == line_maps[j]
         IN  IF amend.start < line_map.old_start
             THEN IF amend.start + amend.extent > line_map.old_start
                  THEN [entries |-> <<>>, raises |-> TRUE]
                  ELSE LET rest == StreamDropsHeldAmendment(amends, i + 1, line_maps, j)
                       IN  [rest EXCEPT !.entries = <<AmendEntry(amend)>> \o @]
             ELSE IF line_map.old_start + line_map.old_extent > amend.start
                  THEN [entries |-> <<>>, raises |-> TRUE]
                  ELSE LET rest == StreamDropsHeldAmendment(amends, i, line_maps, j + 1)
                       IN  [rest EXCEPT !.entries = <<LineMapEntry(line_map)>> \o @]
    ELSE IF i <= Len(amends)
    THEN [entries |-> [k \in 1..(Len(amends) - i) |-> AmendEntry(amends[i + k])],
          raises |-> FALSE]
    ELSE [entries |-> [k \in 1..(Len(line_maps) - j + 1) |->
                          LineMapEntry(line_maps[j + k - 1])],
          raises |-> FALSE]

\* AmendedBlob._stream_amendments_and_diff_hunks from amendment i and mapping
\* j on: the entries it yields, and whether it ends by raising
RECURSIVE StreamAmendmentsAndDiffHunks(_, _, _, _)
StreamAmendmentsAndDiffHunks(amends, i, line_maps, j) ==
    IF i <= Len(amends) /\ j <= Len(line_maps)
    THEN LET amend == amends[i]
             line_map == line_maps[j]
         IN  IF amend.start < line_map.old_start
             THEN IF amend.start + amend.extent > line_map.old_start
                  THEN [entries |-> <<>>, raises |-> TRUE]
                  ELSE LET rest == StreamAmendmentsAndDiffHunks(amends, i + 1, line_maps, j)
                       IN  [rest EXCEPT !.entries = <<AmendEntry(amend)>> \o @]
             ELSE IF line_map.old_start + line_map.old_extent > amend.start
                  THEN [entries |-> <<>>, raises |-> TRUE]
                  ELSE LET rest == StreamAmendmentsAndDiffHunks(amends, i, line_maps, j + 1)
                       IN  [rest EXCEPT !.entries = <<LineMapEntry(line_map)>> \o @]
    ELSE IF i <= Len(amends)
    THEN [entries |-> [k \in 1..(Len(amends) - i + 1) |-> AmendEntry(amends[i + k - 1])],
          raises |-> FALSE]
    ELSE [entries |-> [k \in 1..(Len(line_maps) - j + 1) |->
                          LineMapEntry(line_maps[j + k - 1])],
          raises |-> FALSE]

\* the loop of adjusted_by_diff without the offset added to the start
RECURSIVE AdjustLoopWithoutOffset(_, _, _, _)
AdjustLoopWithoutOffset(stream, k, offset, amends) ==
    IF k > Len(stream.entries)
    THEN IF stream.raises
         THEN [result |-> "amendment overlaps diff delta", amendments |-> amends]
         ELSE [result |-> "ok", amendments |-> amends]
    ELSE LET entry == stream.entries[k]
         IN  IF entry.kind = "amend"
             THEN LET out == ReplaceLines(amends, entry.amend.start,
                                          entry.amend.extent, entry.amend.replacement)
                  IN  IF out.result # "ok" THEN out
                      ELSE AdjustLoopWithoutOffset(stream, k + 1, offset, out.amendments)
             ELSE AdjustLoopWithoutOffset(stream, k + 1, offset, amends)

\* the loop of adjusted_by_diff over the entries from entry k on
RECURSIVE AdjustLoop(_, _, _, _)
AdjustLoop(stream, k, offset, amends) ==
    IF k > Len(stream.entries)
    THEN IF stream.raises
         THEN [result |-> "amendment overlaps diff delta", amendments |-> amends]
         ELSE [result |-> "ok", amendments |-> amends]
    ELSE LET entry == stream.entries[k]
         IN  IF entry.kind = "amend"
             THEN LET out == ReplaceLines(amends, entry.amend.start + offset,
                                          entry.amend.extent, entry.amend.replacement)
                  IN  IF out.result # "ok" THEN out
                      ELSE AdjustLoop(stream, k + 1, offset, out.amendments)
             ELSE AdjustLoop(stream, k + 1,
                             offset + entry.line_map.new_extent - entry.line_map.old_extent,
                             amends)

\* AmendedBlob.adjusted_by_diff: the outcome ("ok" or the ValueError) and the
\* blob returned
AdjustedByDiff(amends, diff_hunks, commit, file, oid) ==
    LET stream == StreamAmendmentsAndDiffHunks(amends, 1, ChainMapLines(diff_hunks), 1)
        out == AdjustLoop(stream, 1, 0, <<>>)
    IN  [result |-> out.result,
         blob |-> IF out.result = "ok" THEN AmendedBlob(commit, file, oid, 0, out.amendments)
                  ELSE NoBlob]

\* the commit, path and blob OID the amendments are carried to
Targets == {[commit |-> 1, file |-> "f", oid |-> 1], [commit |-> NumCommits, file |-> "g", oid |-> 2]}

InitAdjust ==
    /\ amendments \in ListsAfter(MaxRecords)
    /\ lastCall = NoCall
    /\ \E diff \in Diffs, target \in Targets :
          adjusted = [NotAdjusted EXCEPT !.pc = "called", !.diff = diff,
                                         !.commit = target.commit, !.file = target.file,
                                         !.oid = target.oid]
    /\ coalescing = NotCoalescing
    /\ blobOutput = NotWritten
    /\ planCall = NoPlanCall
    /\ cli = NoCli
    /\ blameCall = NoBlame
    /\ reconciling = NotReconciling
    /\ treeWrite = NoTreeWrite
    /\ commitWrite = NoCommitWrite
    /\ diffParse = NoDiffParse
    /\ lsTrees = NoTrees
    /\ IdleRepo
    /\ IdlePlan
    /\ IdleRebuild
    /\ IdleBackend

\* the call blob.adjusted_by_diff(diff, commit, file, oid) runs
CallAdjustedByDiff ==
    /\ adjusted.pc = "called"
    /\ LET out == AdjustedByDiff(amendments, adjusted.diff, adjusted.commit, adjusted.file,
                                 adjusted.oid)
       IN  adjusted' = [adjusted EXCEPT !.pc = "done",
                                        !.line_map = ChainMapLines(adjusted.diff),
                                        !.result = out.result, !.blob = out.blob]
    /\ UNCHANGED <<amendments, lastCall, coalescing>>
    /\ UNCHANGED <<blobOutput, planCall, cli, blameCall, reconciling, treeWrite, commitWrite, diffParse, lsTrees, repoVars, planVars, rebuildVars, nextHandle, backendVars>>

NextAdjust == CallAdjustedByDiff

SpecAdjust == InitAdjust /\ [][NextAdjust]_vars

(***************************************************************************)
(* AmendedBranchBuilder._coalesce_amended_blobs (amend.py) up to the diff  *)
(* reconciliation: the amendments of the commit, the amended blobs of its  *)
(* rewritten parents, and the reuse of a parent's rewrite.  A dict is a    *)
(* function; parent_amendments[path] lists (parent, blob) in dict order.   *)
(***************************************************************************)
Paths == {"f", "g"}

\* the amendments lists of the blobs
BlobAmendments == {<<AmendmentRecord(1, 1, <<>>)>>, <<AmendmentRecord(2, 1, <<1>>)>>}

\* the amended blob of a rewritten parent for a path: the parent's blob OID,
\* its amendments, and the handle request_commit_rewrite gave it
ParentBlobs(parent, path) ==
    {AmendedBlob(parent, path, oid, 2 * parent + (IF path = "f" THEN 0 ELSE 1), amends) :
        oid \in 1..2, amends \in BlobAmendments}

\* parent_amendments[path] for the parents 1 and 2 of the commit, in either order
ParentEntries(path) ==
    {<<[parent |-> 1, blob |-> b]>> : b \in ParentBlobs(1, path)}
      \cup {<<[parent |-> 2, blob |-> b]>> : b \in ParentBlobs(2, path)}
      \cup {<<[parent |-> 1, blob |-> b[1]], [parent |-> 2, blob |-> b[2]]>> :
                b \in ParentBlobs(1, path) \X ParentBlobs(2, path)}
      \cup {<<[parent |-> 2, blob |-> b[2]], [parent |-> 1, blob |-> b[1]]>> :
                b \in ParentBlobs(1, path) \X ParentBlobs(2, path)}

\* dict[key] = value
DictSet(dict, key, value) ==
    [k \in (DOMAIN dict) \cup {key} |-> IF k = key THEN value ELSE dict[k]]

\* AmendedBlob.with_meta without the rewrite data of the blob
WithMetaWithoutRewriteData(blob, commit, file) ==
    AmendedBlob(commit, file, blob.oid, 0, blob.amendments)

\* AmendedBlob.with_meta
WithMeta(blob, commit, file) ==
    AmendedBlob(commit, file, blob.oid, blob.rewrite_data, blob.amendments)

\* AmendedBranchBuilder._find_reusable_parent from entry i on; NoBlob for None
RECURSIVE FindReusableParent(_, _, _)
FindReusableParent(child_blob_oid, parent_blobs, i) ==
    IF i > Len(parent_blobs) THEN NoBlob
    ELSE IF parent_blobs[i].blob.oid = child_blob_oid THEN parent_blobs[i].blob
    ELSE FindReusableParent(child_blob_oid, parent_blobs, i + 1)

\* AmendedBranchBuilder._reuse_parent_blob_rewrites over the paths of
\* parent_only_changes from entry k on; child_blob_oids holds the paths
\* ls_tree lists for the commit
RECURSIVE ReuseParentBlobRewrites(_, _, _, _, _, _)
ReuseParentBlobRewrites(commit_oid, parent_only_changes, child_blob_oids, k, coalesced, need_full_reconcile) ==
    IF k > Len(parent_only_changes)
    THEN [coalesced |-> coalesced, need_full_reconcile |-> need_full_reconcile]
    ELSE LET path == parent_only_changes[k].path
             parent_blobs == parent_only_changes[k].parent_blobs
             reusable_parent ==
                IF path \in DOMAIN child_blob_oids
                THEN FindReusableParent(child_blob_oids[path], parent_blobs, 1)
                ELSE NoBlob
         IN  IF reusable_parent # NoBlob
             THEN ReuseParentBlobRewrites(
                      commit_oid, parent_only_changes, child_blob_oids, k + 1,
                      DictSet(coalesced, path, WithMeta(reusable_parent, commit_oid, path)),
                      need_full_reconcile)
             ELSE ReuseParentBlobRewrites(
                      commit_oid, parent_only_changes, child_blob_oids, k + 1,
                      coalesced, need_full_reconcile \cup {path})

\* the items of a dict over paths, in the order "f", "g"
DictItems(dict) ==
    (IF "f" \in DOMAIN dict THEN <<[path |-> "f", parent_blobs |-> dict["f"]]>> ELSE <<>>)
    \o (IF "g" \in DOMAIN dict THEN <<[path |-> "g", parent_blobs |-> dict["g"]]>> ELSE <<>>)

\* _coalesce_amended_blobs up to _handle_parent_changes_with_diff: coalesced
\* as the diff reconciliation finds it, and the paths it is run for
CoalesceUpToDiff(commit_oid, new_amendments, parent_amendments, child_blob_oids) ==
    LET need_full_reconcile == (DOMAIN new_amendments) \cap (DOMAIN parent_amendments)
        coalesced == [path \in (DOMAIN new_amendments) \ need_full_reconcile |->
                         new_amendments[path]]
        parent_only == DictItems([path \in (DOMAIN parent_amendments) \ need_full_reconcile |->
                                     parent_amendments[path]])
    IN  IF parent_only # <<>>
        THEN ReuseParentBlobRewrites(commit_oid, parent_only, child_blob_oids, 1, coalesced,
                                     need_full_reconcile)
        ELSE [coalesced |-> coalesced, need_full_reconcile |-> need_full_reconcile]

\* the dicts over some of the paths, with a value of values[path] for each
DictsOver(paths, values) ==
    UNION {{d \in [ps -> UNION {values[p] : p \in ps}] : \A p \in ps : d[p] \in values[p]} :
              ps \in SUBSET paths}

ChildBlobOids(path) == 1..2

OwnBlobs(path) == {AmendedBlob(NumCommits, path, 0, 0, <<AmendmentRecord(3, 1, <<>>)>>)}

InitCoalesce ==
    /\ amendments = <<>>
    /\ lastCall = NoCall
    /\ adjusted = NotAdjusted
    /\ \E child_blob_oids \in DictsOver(Paths, [p \in Paths |-> ChildBlobOids(p)]),
          parent_amendments \in DictsOver(Paths, [p \in Paths |-> ParentEntries(p)]),
          own \in DictsOver(Paths, [p \in Paths |-> OwnBlobs(p)]) :
          /\ DOMAIN own \subseteq DOMAIN child_blob_oids
          /\ coalescing =
                [NotCoalescing EXCEPT
                    !.pc = "called", !.commit_oid = NumCommits,
                    !.new_amendments =
                        [path \in DOMAIN own |->
                            [own[path] EXCEPT !.oid = child_blob_oids[path]]],
                    !.parent_amendments = parent_amendments,
                    !.child_blob_oids = child_blob_oids]
    /\ blobOutput = NotWritten
    /\ planCall = NoPlanCall
    /\ cli = NoCli
    /\ blameCall = NoBlame
    /\ reconciling = NotReconciling
    /\ treeWrite = NoTreeWrite
    /\ commitWrite = NoCommitWrite
    /\ diffParse = NoDiffParse
    /\ lsTrees = NoTrees
    /\ IdleRepo
    /\ IdlePlan
    /\ IdleRebuild
    /\ IdleBackend

\* _coalesce_amended_blobs runs up to the diff reconciliation
CallCoalesce ==
    /\ coalescing.pc = "called"
    /\ LET out == CoalesceUpToDiff(coalescing.commit_oid, coalescing.new_amendments,
                                   coalescing.parent_amendments, coalescing.child_blob_oids)
       IN  coalescing' = [coalescing EXCEPT !.pc = "done", !.coalesced = out.coalesced,
                                            !.reconciled = out.need_full_reconcile]
    /\ UNCHANGED <<amendments, lastCall, adjusted>>
    /\ UNCHANGED <<blobOutput, planCall, cli, blameCall, reconciling, treeWrite, commitWrite, diffParse, lsTrees, repoVars, planVars, rebuildVars, nextHandle, backendVars>>

NextCoalesce == CallCoalesce

SpecCoalesce == InitCoalesce /\ [][NextCoalesce]_vars

(***************************************************************************)
(* C1: after any sequence of replace_lines calls, accepted or rejected,    *)
(* the amendments list is sorted by start and adjacent records do not      *)
(* overlap: r_i.start + r_i.extent <= r_{i+1}.start.                       *)
(***************************************************************************)
C1_SortedNonOverlapping ==
    \A i \in 1..(Len(amendments) - 1) :
        /\ amendments[i].start <= amendments[i + 1].start
        /\ amendments[i].start + amendments[i].extent <= amendments[i + 1].start

\* an accepted call that inserted a record in front of a held record it abuts
C1_Witness ==
    /\ Len(amendments) >= 2
    /\ lastCall.result = "ok"
    /\ Len(lastCall.before) >= 1
    /\ amendments[1] = AmendmentRecord(lastCall.start, lastCall.extent, lastCall.replacement)
    /\ amendments[1].start + amendments[1].extent = amendments[2].start
    /\ amendments[1].extent > 0

(***************************************************************************)
(* C2: a call whose range [start, start+extent) shares a line with the     *)
(* range of a record already held (other than the record itself) fails    *)
(* with 'overlapping amendments requested' and leaves the list unchanged;  *)
(* a call equal to a held record succeeds and leaves the list unchanged.   *)
(***************************************************************************)
SharesLine(s1, e1, s2, e2) ==
    \E line \in 1..(MaxLine + MaxExtent) :
        /\ s1 <= line /\ line < s1 + e1
        /\ s2 <= line /\ line < s2 + e2

LastRecord == AmendmentRecord(lastCall.start, lastCall.extent, lastCall.replacement)

C2_OverlapRejectedDuplicateDeduped ==
    lastCall.result # "none" =>
        /\ (\E i \in 1..Len(lastCall.before) :
                /\ lastCall.before[i] # LastRecord
                /\ SharesLine(lastCall.before[i].start, lastCall.before[i].extent,
                              lastCall.start, lastCall.extent))
            => /\ lastCall.result = "overlapping amendments requested"
               /\ amendments = lastCall.before
        /\ (\E i \in 1..Len(lastCall.before) : lastCall.before[i] = LastRecord)
            => /\ lastCall.result = "ok"
               /\ amendments = lastCall.before

\* a rejected call on a blob of two or more records, one of which it overlaps
C2_WitnessOverlap ==
    /\ lastCall.result = "overlapping amendments requested"
    /\ Len(lastCall.before) >= 2
    /\ \E i \in 1..Len(lastCall.before) :
          SharesLine(lastCall.before[i].start, lastCall.before[i].extent,
                     lastCall.start, lastCall.extent)

(***************************************************************************)
(* C3: for every partial graph, reverse_topo_ordering(head) lists each     *)
(* commit before any of its descendants, and the rebuilder submits         *)
(* rewrite_commit for every parent of the slice before it submits a child  *)
(* of that parent: every listing (every submission) of a commit comes      *)
(* after a listing (a submission) of each of its ancestors in the graph.   *)
(***************************************************************************)
KnownParents(c) == SeqRange(commitGraph[c]) \cap DOMAIN commitGraph

RECURSIVE KnownAncestors(_)
KnownAncestors(c) ==
    KnownParents(c) \cup UNION {KnownAncestors(p) : p \in KnownParents(c)}

C3_ParentsBeforeChildren ==
    /\ \A i \in 1..Len(rewriteOrder) :
          \A a \in KnownAncestors(rewriteOrder[i]) :
             \E j \in 1..(i - 1) : rewriteOrder[j] = a
    /\ \A i \in 1..Len(submitted) :
          /\ submitted[i].commit_oid = rewriteOrder[i]
          /\ \A a \in KnownAncestors(submitted[i].commit_oid) :
                \E j \in 1..(i - 1) : submitted[j].commit_oid = a

\* every commit of a graph is submitted, the graph holding a merge whose
\* second parent is an ancestor of its first
C3_Witness ==
    /\ builder.pc = "returned"
    /\ Len(submitted) = Len(rewriteOrder)
    /\ \E c \in DOMAIN commitGraph :
          /\ Len(commitGraph[c]) = 2
          /\ SeqRange(commitGraph[c]) \subseteq DOMAIN commitGraph
          /\ commitGraph[c][2] \in KnownAncestors(commitGraph[c][1])

(***************************************************************************)
(* C4: when _start_commit_rewrite runs for a commit of the walk, one of    *)
(* its parents has an entry in amended_commits or the commit has           *)
(* amendments of its own: the assertion                                    *)
(* `parent_handles != parents or amendments is not None` never fails on a  *)
(* graph build_partial made from head and the commits of the plan.         *)
(***************************************************************************)
C4_AssertionNeverFails ==
    /\ builder.error # "AssertionError"
    /\ (builder.pc = "apply" /\ builder.pos <= Len(rewriteOrder)) =>
          LET c == rewriteOrder[builder.pos]
          IN  \/ c \in DOMAIN plan
              \/ \E p \in SeqRange(commitGraph[c]) : p \in DOMAIN amendedCommits

\* a commit without amendments of its own was submitted with one parent
\* rewritten and one parent kept
C4_Witness ==
    \E i \in 1..Len(submitted) :
       /\ submitted[i].commit_oid \notin DOMAIN plan
       /\ \E j, k \in 1..Len(submitted[i].parents) :
             /\ submitted[i].parents[j].kind = "handle"
             /\ submitted[i].parents[k].kind = "oid"


(***************************************************************************)
(* C5 as stated: for every handle rewrite_commit issued, the commit (or    *)
(* blob) task has completed with an OID before join() returns              *)
(* successfully; join() never returns successfully while a spawned commit  *)
(* or blob task is still pending.                                          *)
(***************************************************************************)
C5_Original_JoinWaitsForTasks ==
    client.joined =>
       /\ \A h \in IssuedCommitHandles :
             h \in DOMAIN commitRewrites /\ commitRewrites[h].task = "done"
       /\ \A b \in IssuedBlobs :
             /\ b.rewrite_data \in DOMAIN blobRewrites
             /\ blobRewrites[b.rewrite_data].state = "done"

(***************************************************************************)
(* C11: with more requests submitted than the queue holds and no           *)
(* subprocess failing, nothing deadlocks: every request submitted is taken *)
(* by the worker, every commit task completes, and resolve_handle(head)    *)
(* followed by join() returns.                                             *)
(***************************************************************************)
AllTaken == Len(issued) = Len(rewriteOrder) /\ queue = <<>> /\ unfinished = 0

AllCommitTasksDone ==
    \A h \in IssuedCommitHandles :
       h \in DOMAIN commitRewrites /\ commitRewrites[h].task = "done"

C11_NoDeadlock ==
    <>[](/\ builder.pc = "returned"
         /\ client.joined
         /\ AllTaken
         /\ AllCommitTasksDone)

\* apply() returned after more submissions than the queue holds
C11_Witness ==
    /\ builder.pc = "returned"
    /\ client.joined
    /\ Len(issued) > QueueCapacity
    /\ AllCommitTasksDone

(***************************************************************************)
(* C6 as stated: when the plan holds no amendments, write_commits returns  *)
(* the head OID unchanged.                                                 *)
(***************************************************************************)
C6_Original_WriteCommitsReturnsHead ==
    (writeCommits.status # "not called" /\ ~HasAmendments(plan))
        => writeCommits = [status |-> "returned", oid |-> head]

(***************************************************************************)
(* C6 as amended: when the plan holds no amendments, suggest_basic returns *)
(* (head, head) without calling write_commits, so no rewrite request is    *)
(* submitted; write_commits itself, called on such a plan, raises (the git *)
(* error of the empty commit listing, or KeyError for head) and submits    *)
(* nothing.                                                                *)
(***************************************************************************)
C6_EmptyPlanHeadUnchanged ==
    ~HasAmendments(plan) =>
        /\ driver.pc # "write_commits"
        /\ driver.pc = "returned" =>
              /\ driver.result = <<head, head>>
              /\ writeCommits = NotCalled
        /\ writeCommits.status # "not called" =>
              writeCommits.status \in {"Fatal", "KeyError"}

\* write_commits was called on a plan without amendments, after an attribution
\* query that attributed nothing
C6_Witness ==
    /\ ~HasAmendments(plan)
    /\ blameQueries > 0
    /\ driver.pc = "write_commits called"
    /\ writeCommits.status = "KeyError"

(***************************************************************************)
(* C7 as stated: when the attribution of an edit's old range yields more   *)
(* than one source range and the edit adds no lines, the plan afterwards   *)
(* holds an amendment (start, extent, b'') for every attributed source     *)
(* range, and has_amendments() is true.                                    *)
(***************************************************************************)
PlanHolds(pl, rng, replacement) ==
    /\ rng.rev \in DOMAIN pl
    /\ rng.file \in DOMAIN pl[rng.rev]
    /\ \E i \in 1..Len(pl[rng.rev][rng.file]) :
          pl[rng.rev][rng.file][i] = AmendmentRecord(rng.start, rng.extent, replacement)

C7_Original_MultiSourceDeletionRecorded ==
    (/\ lastEdit.handled
     /\ Len(lastEdit.blame) > 1
     /\ (lastEdit.new_range = NoRange \/ lastEdit.new_range.extent = 0))
        => /\ HasAmendments(plan)
           /\ \A i \in 1..Len(lastEdit.blame) : PlanHolds(plan, lastEdit.blame[i][1], <<>>)

(***************************************************************************)
(* C8: a staged change made of insertions only (every edit has no old      *)
(* range or an old range of extent 0) records no amendment and runs no     *)
(* attribution query, and suggest_basic returns (head, head) without       *)
(* calling write_commits.                                                  *)
(***************************************************************************)
InsertOnly(h) ==
    LET edits == GetEdits(h, head, 0)
    IN  \A k \in 1..Len(edits) :
            edits[k].old_range = NoRange \/ edits[k].old_range.extent = 0

C8_InsertOnlySkipped ==
    (hunk # NoHunk /\ InsertOnly(hunk)) =>
        /\ plan = EmptyPlan
        /\ blameQueries = 0
        /\ driver.pc \notin {"write_commits", "raised"}
        /\ writeCommits.status # "rewriting"
        /\ driver.pc = "returned" => driver.result = <<head, head>>

\* suggest_basic has returned for a hunk of two separate insertions
C8_Witness ==
    /\ hunk # NoHunk
    /\ InsertOnly(hunk)
    /\ Len(GetEdits(hunk, head, 0)) >= 2
    /\ lastEdit.handled
    /\ driver.pc = "returned"
    /\ driver.result = <<head, head>>

(***************************************************************************)
(* C9 as stated: when propagation fails at a descendant commit with        *)
(* 'amendment overlaps diff delta', no object (blob, tree or commit) has   *)
(* been written by the apply backend, in every interleaving of the         *)
(* rebuilder with the worker and the commit and blob tasks: none before    *)
(* the error is raised, none after it.                                     *)
(***************************************************************************)
C9_Original_NoObjectWritten ==
    client.error = "amendment overlaps diff delta" => objects = {}

(***************************************************************************)
(* C10: the number of requests held in the queue never exceeds its         *)
(* capacity, and a rewrite_commit call made while the queue is full does   *)
(* not return while it stays full: it returns only after the worker has    *)
(* removed a request.                                                      *)
(***************************************************************************)
C10_QueueBounded ==
    /\ [](Len(queue) <= QueueCapacity)
    /\ [][(client.pc = "rewrite_commit" /\ Len(queue) = QueueCapacity)
             => client'.pc # "ready"]_vars
    /\ [][Len(queue') < Len(queue) => (mainTask = "running" /\ queue' = Tail(queue))]_vars

\* a rewrite_commit call waits on the full queue while the worker is alive
C10_Witness ==
    /\ client.pc = "rewrite_commit"
    /\ Len(queue) = QueueCapacity
    /\ completion = "pending"
    /\ mainTask = "running"

\* ---------------------------------------------------------------------------
\* C12: a blob handle is written at most once, however many commit tasks
\* reference it: the future of a handle is resolved only while no object was
\* written for the handle, a written handle keeps its resolved future, and a
\* task gets past its blobs only with that one object of each of its handles
BlobObject(b) == [type |-> "blob", handle |-> b]

PastBlobs(h) == h \in DOMAIN commitRewrites /\ commitRewrites[h].task \in {"parents", "done"}

C12_BlobWrittenOnce ==
    /\ [][\A b \in DOMAIN blobRewrites' :
             (/\ blobRewrites'[b].state = "done"
              /\ (b \notin DOMAIN blobRewrites \/ blobRewrites[b].state # "done"))
             => (BlobObject(b) \notin objects /\ BlobObject(b) \in objects')]_vars
    /\ [](\A o \in objects :
             o.type = "blob" =>
                (o.handle \in DOMAIN blobRewrites /\ blobRewrites[o.handle].state = "done"))
    /\ [](\A h \in DOMAIN commitRewrites :
             PastBlobs(h) =>
                \A b \in BlobHandles(commitRewrites[h].data) : BlobObject(b) \in objects)

\* two commit tasks that reference the same blob handle both got past it
C12_Witness ==
    \E h1, h2 \in DOMAIN commitRewrites :
       /\ h1 # h2
       /\ PastBlobs(h1) /\ PastBlobs(h2)
       /\ BlobHandles(commitRewrites[h1].data) \cap BlobHandles(commitRewrites[h2].data) # {}

\* ---------------------------------------------------------------------------
\* C13: a commit task is complete only when the future of every blob handle it
\* references is resolved and the commit task of every parent it references by
\* handle is complete
C13_TaskAfterBlobsAndParents ==
    \A h \in DOMAIN commitRewrites :
       commitRewrites[h].task = "done" =>
          /\ \A b \in BlobHandles(commitRewrites[h].data) :
                b \in DOMAIN blobRewrites /\ blobRewrites[b].state = "done"
          /\ \A parent \in HandleParents(commitRewrites[h].data) :
                parent \in DOMAIN commitRewrites /\ commitRewrites[parent].task = "done"

\* a complete commit task that references a blob handle and a parent handle
C13_Witness ==
    \E h \in DOMAIN commitRewrites :
       /\ commitRewrites[h].task = "done"
       /\ BlobHandles(commitRewrites[h].data) # {}
       /\ HandleParents(commitRewrites[h].data) # {}

\* ---------------------------------------------------------------------------
\* C14: the first exception a task raises is stored on the completion future
\* and no later exception takes its place; the step that stores it cancels the
\* worker, the commit tasks that are not done, the pending input futures and
\* the pending blob futures; a caller waiting in rewrite_commit, resolve_handle
\* or join while the exception is stored leaves its call only by raising that
\* exception, and does leave it
Waiting == client.pc \in {"rewrite_commit", "resolve_handle", "join"}

ExceptionStored == completion = "exception"

AllCancelled ==
    /\ mainTask = "cancelled"
    /\ \A b \in DOMAIN blobRewrites : blobRewrites[b].state # "pending"
    /\ \A h \in DOMAIN commitRewrites :
          /\ commitRewrites[h].input # "pending"
          /\ commitRewrites[h].task \in {"done", "cancelled"}

C14_FirstExceptionKeptAllWoken ==
    /\ [][ExceptionStored => (ExceptionStored' /\ completionExc' = completionExc)]_vars
    /\ [][(~ExceptionStored /\ ExceptionStored') =>
             (/\ completion = "pending"
              /\ completionExc'.type \in {"Fatal", "KeyError"}
              /\ AllCancelled')]_vars
    /\ [][(ExceptionStored /\ Waiting /\ client' # client) =>
             (/\ client'.pc = "raised"
              /\ client'.exc = completionExc
              /\ client'.error = completionExc.type)]_vars
    /\ ((ExceptionStored /\ Waiting) ~> (client.pc = "raised" /\ client.exc = completionExc))

\* a caller was woken by the exception of a failed task after the
\* CancelledError of another task it cancelled went through _die_on_error
C14_Witness ==
    /\ ExceptionStored
    /\ completionExc.type = "Fatal"
    /\ client.pc = "raised"
    /\ client.exc = completionExc
    /\ \E h \in DOMAIN commitRewrites :
          h # completionExc.task /\ commitRewrites[h].task = "cancelled"

\* ---------------------------------------------------------------------------
\* C15: resolve_handle on a handle whose request the worker has not taken
\* creates the commit task at once, with a pending input future; the worker
\* then resolves that future with the request and creates no task; the call
\* returns once that task has written the commit; no handle ever has a second
\* commit task
InQueue(h) == \E i \in 1..Len(queue) : queue[i].commit_handle = h

PreRegistered ==
    /\ client.pc = "resolve_handle"
    /\ client.target \in DOMAIN commitRewrites
    /\ commitRewrites[client.target].input = "pending"

CommitObject(h) == [type |-> "commit", handle |-> h]

C15_PreRegisteredTaskIsReused ==
    /\ [](\A h \in DOMAIN commitRewrites : commitRewrites[h].tasks = 1)
    /\ [][(client.pc = "ready" /\ client'.pc = "resolve_handle") =>
             (/\ client'.target \in DOMAIN commitRewrites'
              /\ client'.target \notin DOMAIN commitRewrites =>
                    commitRewrites'[client'.target] =
                       [input |-> "pending", data |-> NoRequest, task |-> "input",
                        tasks |-> 1])]_vars
    /\ [][(/\ queue # <<>>
           /\ queue' = Tail(queue)
           /\ Head(queue).commit_handle \in DOMAIN commitRewrites) =>
             (commitRewrites'[Head(queue).commit_handle] =
                 [commitRewrites[Head(queue).commit_handle] EXCEPT
                     !.input = "set", !.data = Head(queue)])]_vars
    /\ [][(client.pc = "resolve_handle" /\ client'.pc = "ready") =>
             (/\ commitRewrites[client.target].task = "done"
              /\ CommitObject(client.target) \in objects)]_vars
    /\ (PreRegistered ~>
           (/\ client.pc = "ready"
            /\ builder.pc = "resolve"
            /\ commitRewrites[builder.head_handle].task = "done"
            /\ CommitObject(builder.head_handle) \in objects))

\* resolve_handle waits on the task it created while the request of its
\* handle is still in the queue
C15_Witness == PreRegistered /\ InQueue(client.target)

\* ---------------------------------------------------------------------------
\* the lines start .. start + extent - 1
LinesOf(start, extent) == start..(start + extent - 1)

\* the amendment and the old range of the mapping have a line in common
SharesOldLine(amend, line_map) ==
    LinesOf(amend.start, amend.extent)
       \cap LinesOf(line_map.old_start, line_map.old_extent) # {}

\* the amendment ends at or before the start of the mapping, or starts at or
\* after the end of the old range of the mapping
ClearOf(amend, line_map) ==
    IF amend.start < line_map.old_start
    THEN amend.start + amend.extent <= line_map.old_start
    ELSE line_map.old_start + line_map.old_extent <= amend.start

\* the sum of new_extent - old_extent over the mappings that start at or
\* before the line
RECURSIVE OffsetAt(_, _)
OffsetAt(line, line_maps) ==
    IF line_maps = <<>> THEN 0
    ELSE (IF Head(line_maps).old_start <= line
          THEN Head(line_maps).new_extent - Head(line_maps).old_extent
          ELSE 0) + OffsetAt(line, Tail(line_maps))

Rebased(amends, line_maps) ==
    [i \in 1..Len(amends) |->
        AmendmentRecord(amends[i].start + OffsetAt(amends[i].start, line_maps),
                        amends[i].extent, amends[i].replacement)]

RebasedBlob ==
    AmendedBlob(adjusted.commit, adjusted.file, adjusted.oid, 0,
                Rebased(amendments, adjusted.line_map))

\* C16 as stated: when no amendment shares a line with the old range of a
\* mapping, adjusted_by_diff returns the blob of the given commit, file and
\* oid, without rewrite data, with one record per amendment, moved by the
\* offset of the mappings that start at or before it
C16_Original_RebasedWhenNoSharedLine ==
    (/\ adjusted.pc = "done"
     /\ \A i \in 1..Len(amendments), j \in 1..Len(adjusted.line_map) :
           ~SharesOldLine(amendments[i], adjusted.line_map[j]))
    => (adjusted.result = "ok" /\ adjusted.blob = RebasedBlob)

\* C16, amended: the same result when every amendment is clear of every
\* mapping: it ends at or before the mapping's old_start, or starts at or
\* after the end of the mapping's old range
C16_RebasedWhenClear ==
    (/\ adjusted.pc = "done"
     /\ \A i \in 1..Len(amendments), j \in 1..Len(adjusted.line_map) :
           ClearOf(amendments[i], adjusted.line_map[j]))
    => (adjusted.result = "ok" /\ adjusted.blob = RebasedBlob)

\* two amendments were carried over a diff with a mapping in front of the
\* first and one between them, and moved by different offsets
C16_Witness ==
    /\ adjusted.pc = "done"
    /\ adjusted.result = "ok"
    /\ Len(amendments) = 2
    /\ Len(adjusted.line_map) = 2
    /\ adjusted.blob = RebasedBlob
    /\ adjusted.blob.amendments[1].start # amendments[1].start
    /\ adjusted.blob.amendments[2].start - amendments[2].start
          # adjusted.blob.amendments[1].start - amendments[1].start

\* ---------------------------------------------------------------------------
\* C17: when some amendment shares a line with the old range of some mapping
\* of the diff, adjusted_by_diff raises 'amendment overlaps diff delta' and
\* returns no blob
SomeSharedLine ==
    \E i \in 1..Len(amendments), j \in 1..Len(adjusted.line_map) :
       SharesOldLine(amendments[i], adjusted.line_map[j])

C17_SharedLineRaises ==
    (adjusted.pc = "done" /\ SomeSharedLine)
    => (adjusted.result = "amendment overlaps diff delta" /\ adjusted.blob = NoBlob)

\* the call raised on the second amendment, whose last line the diff removes,
\* after the first amendment was carried over
C17_Witness ==
    /\ adjusted.pc = "done"
    /\ adjusted.result = "amendment overlaps diff delta"
    /\ Len(amendments) = 2
    /\ \A j \in 1..Len(adjusted.line_map) :
          /\ ~SharesOldLine(amendments[1], adjusted.line_map[j])
          /\ ClearOf(amendments[1], adjusted.line_map[j])
    /\ \E j \in 1..Len(adjusted.line_map) :
          /\ SharesOldLine(amendments[2], adjusted.line_map[j])
          /\ amendments[2].start < adjusted.line_map[j].old_start

\* ---------------------------------------------------------------------------
\* C18: adjusted_by_diff of a blob without amendments returns a blob without
\* amendments, whatever the diff; over a diff without Add and Remove ops
\* (context only, or no hunk) it returns the amendments of the blob unchanged
NoChangeDiff ==
    \A n \in 1..Len(adjusted.diff) :
       \A i \in 1..Len(adjusted.diff[n].ops) : adjusted.diff[n].ops[i] = "Context"

C18_EmptyAndIdentity ==
    adjusted.pc = "done" =>
       /\ amendments = <<>> =>
             (adjusted.result = "ok" /\ adjusted.blob.amendments = <<>>)
       /\ NoChangeDiff =>
             (adjusted.result = "ok" /\ adjusted.blob.amendments = amendments)

\* a list of MaxRecords amendments came back unchanged from a diff of context
\* lines
C18_Witness ==
    /\ adjusted.pc = "done"
    /\ adjusted.diff # <<>>
    /\ NoChangeDiff
    /\ Len(amendments) = MaxRecords
    /\ adjusted.blob.amendments = amendments

\* ---------------------------------------------------------------------------
\* C19: every line mapping map_lines yields, for every hunk, has
\* old_extent + new_extent > 0
C19_NoEmptyMapping ==
    adjusted.pc = "done" =>
       \A j \in 1..Len(adjusted.line_map) :
          adjusted.line_map[j].old_extent + adjusted.line_map[j].new_extent > 0

\* a hunk at line 1 gave a pure deletion, and after a context line a pure
\* insertion
C19_Witness ==
    /\ adjusted.pc = "done"
    /\ Len(adjusted.diff) = 1
    /\ adjusted.diff[1].old_start = 1
    /\ Len(adjusted.line_map) = 2
    /\ adjusted.line_map[1].new_extent = 0
    /\ adjusted.line_map[2].old_extent = 0

\* ---------------------------------------------------------------------------
\* C20: for a path with amendments of rewritten parents only, whose blob OID
\* in the commit is the pre-rewrite OID of the amended blob of a parent, the
\* coalesced entry has the amendments and the rewrite handle of the blob of
\* the first such parent, the commit and the path as its commit and file, and
\* the path is not among those the diff reconciliation is run for
ParentOnly(path) ==
    /\ path \in DOMAIN coalescing.parent_amendments
    /\ path \notin DOMAIN coalescing.new_amendments

MatchingParents(path) ==
    {i \in 1..Len(coalescing.parent_amendments[path]) :
        /\ path \in DOMAIN coalescing.child_blob_oids
        /\ coalescing.parent_amendments[path][i].blob.oid = coalescing.child_blob_oids[path]}

FirstMatchingBlob(path) ==
    LET first == CHOOSE i \in MatchingParents(path) : \A j \in MatchingParents(path) : i <= j
    IN  coalescing.parent_amendments[path][first].blob

C20_FastForwardReuse ==
    coalescing.pc = "done" =>
       \A path \in Paths :
          (ParentOnly(path) /\ MatchingParents(path) # {}) =>
             /\ path \in DOMAIN coalescing.coalesced
             /\ coalescing.coalesced[path].amendments = FirstMatchingBlob(path).amendments
             /\ coalescing.coalesced[path].rewrite_data = FirstMatchingBlob(path).rewrite_data
             /\ coalescing.coalesced[path].rewrite_data # 0
             /\ coalescing.coalesced[path].commit = coalescing.commit_oid
             /\ coalescing.coalesced[path].file = path
             /\ path \notin coalescing.reconciled

\* the blob of the second of two rewritten parents was reused for "f", while
\* "g", changed since its rewritten parent, goes to the diff reconciliation
C20_Witness ==
    /\ coalescing.pc = "done"
    /\ ParentOnly("f")
    /\ Len(coalescing.parent_amendments["f"]) = 2
    /\ MatchingParents("f") = {2}
    /\ coalescing.coalesced["f"].rewrite_data
          = coalescing.parent_amendments["f"][2].blob.rewrite_data
    /\ coalescing.coalesced["f"].commit # coalescing.parent_amendments["f"][2].blob.commit
    /\ ParentOnly("g")
    /\ "g" \in coalescing.reconciled

(***************************************************************************)
(* AmendedBlob.write (amend.py): the blob of the commit is read line by    *)
(* line from cat-file and written out with the amendments applied.         *)
(***************************************************************************)
\* the bytes of line lineno of the source blob; replacement lines are
\* positive, so a blob line is never mistaken for a replacement line
SourceLine(lineno) == 0 - lineno

\* the loop of write from line lineno on, holding amends[held] (or None once
\* held runs off the list); a line counts when readuntil found its newline
RECURSIVE WriteLoop(_, _, _, _, _, _)
WriteLoop(lines, partial, amends, lineno, held, output) ==
    IF lineno > lines
    THEN [output |-> output,
          raises |-> IF partial THEN "IncompleteReadError" ELSE "none"]
    ELSE LET next_held == IF held <= Len(amends)
                          THEN IF lineno > amends[held].start + amends[held].extent
                               THEN held + 1
                               ELSE held
                          ELSE held
             has_amend == next_held <= Len(amends)
             with_replacement == IF has_amend
                                 THEN IF lineno = amends[next_held].start
                                      THEN output \o amends[next_held].replacement
                                      ELSE output
                                 ELSE output
             skipped == IF has_amend
                        THEN /\ amends[next_held].start <= lineno
                             /\ lineno < amends[next_held].start + amends[next_held].extent
                        ELSE FALSE
         IN  WriteLoop(lines, partial, amends, lineno + 1, next_held,
                       IF skipped THEN with_replacement
                       ELSE Append(with_replacement, SourceLine(lineno)))

Write(lines, partial, amends) == WriteLoop(lines, partial, amends, 1, 1, <<>>)

\* the amendment lists replace_lines builds whose ranges lie within a blob
\* of the given number of lines
ListsWithin(lines) ==
    {a \in ListsAfter(MaxRecords) :
        \A i \in 1..Len(a) : a[i].start <= lines /\ a[i].start + a[i].extent <= lines + 1}

InitWrite ==
    /\ lastCall = NoCall
    /\ adjusted = NotAdjusted
    /\ coalescing = NotCoalescing
    /\ \E lines \in 0..MaxLine, partial \in BOOLEAN :
          /\ amendments \in ListsWithin(lines)
          /\ blobOutput = [NotWritten EXCEPT !.pc = "called", !.lines = lines,
                                             !.partial = partial]
    /\ planCall = NoPlanCall
    /\ cli = NoCli
    /\ blameCall = NoBlame
    /\ reconciling = NotReconciling
    /\ treeWrite = NoTreeWrite
    /\ commitWrite = NoCommitWrite
    /\ diffParse = NoDiffParse
    /\ lsTrees = NoTrees
    /\ IdleRepo
    /\ IdlePlan
    /\ IdleRebuild
    /\ IdleBackend

CallWrite ==
    /\ blobOutput.pc = "called"
    /\ LET out == Write(blobOutput.lines, blobOutput.partial, amendments)
       IN  blobOutput' = [blobOutput EXCEPT !.pc = "returned", !.output = out.output,
                                            !.raises = out.raises]
    /\ UNCHANGED <<amendments, lastCall, adjusted, coalescing>>
    /\ UNCHANGED <<planCall, cli, blameCall, reconciling, treeWrite, commitWrite, diffParse, lsTrees, repoVars, planVars, rebuildVars, nextHandle, backendVars>>

NextWrite == CallWrite

SpecWrite == InitWrite /\ [][NextWrite]_vars

\* the replacements of the amendments that start at line lineno, in list order
RECURSIVE ReplacementsAt(_, _, _)
ReplacementsAt(amends, i, lineno) ==
    IF i > Len(amends) THEN <<>>
    ELSE (IF amends[i].start = lineno THEN amends[i].replacement ELSE <<>>)
         \o ReplacementsAt(amends, i + 1, lineno)

Replaced(amends, lineno) ==
    \E i \in 1..Len(amends) :
        amends[i].start <= lineno /\ lineno < amends[i].start + amends[i].extent

\* the output the amendments describe: at each line the replacements that
\* start there, then the line itself unless an amendment replaces it
RECURSIVE AmendedOutput(_, _, _)
AmendedOutput(lines, amends, lineno) ==
    IF lineno > lines THEN <<>>
    ELSE ReplacementsAt(amends, 1, lineno)
         \o (IF Replaced(amends, lineno) THEN <<>> ELSE <<SourceLine(lineno)>>)
         \o AmendedOutput(lines, amends, lineno + 1)

\* C21: for every source blob and every sorted, non-overlapping amendment
\* list within it (abutting and zero-extent records included) write puts
\* each replacement once at its start line, omits exactly the replaced
\* lines and passes every other line through in order.
C21_Original_WriteAppliesEveryAmendment ==
    blobOutput.pc = "returned" =>
        /\ blobOutput.raises = "none"
        /\ blobOutput.output = AmendedOutput(blobOutput.lines, amendments, 1)

(***************************************************************************)
(* AmendmentPlan.add_amended_range and has_amendments (amend.py), with the *)
(* outcome of IndexedRange.blob_oid (git.py) on the first touch of a file. *)
(***************************************************************************)
\* what ls-tree lists for rev:file in IndexedRange.blob_oid
Listings == {"blob", "tree", "nothing"}

\* AmendmentPlan.add_amended_range: _for_commit creates the commit's dict,
\* then the blob of a file not yet in the dict is looked up; blob_oid raises
\* ValueError unless ls-tree lists a blob
AddAmendedRangeListed(pl, indexed_range, new_lines, listing) ==
    LET pl1 == ForCommit(pl, indexed_range.rev)
    IN  IF indexed_range.file \notin DOMAIN pl1[indexed_range.rev] /\ listing # "blob"
        THEN [plan |-> pl1, result |-> "ValueError"]
        ELSE AddAmendedRange(pl, indexed_range, new_lines)

InitRange ==
    /\ amendments = <<>>
    /\ lastCall = NoCall
    /\ adjusted = NotAdjusted
    /\ coalescing = NotCoalescing
    /\ blobOutput = NotWritten
    /\ planCall = [NoPlanCall EXCEPT !.pc = "ready"]
    /\ cli = NoCli
    /\ blameCall = NoBlame
    /\ reconciling = NotReconciling
    /\ treeWrite = NoTreeWrite
    /\ commitWrite = NoCommitWrite
    /\ diffParse = NoDiffParse
    /\ lsTrees = NoTrees
    /\ IdleRepo
    /\ IdlePlan
    /\ IdleRebuild
    /\ IdleBackend

\* one call of plan.add_amended_range(indexed_range, new_lines)
CallAddAmendedRange ==
    /\ planCall.pc # "idle"
    /\ planCall.calls < MaxRecords
    /\ \E rev \in {1, NumCommits}, file \in {"f", "g"}, start \in 1..MaxLine,
          extent \in 0..MaxExtent, new_lines \in Replacements, listing \in Listings :
          LET out == AddAmendedRangeListed(plan, IndexedRange(rev, file, start, extent),
                                           new_lines, listing)
          IN  /\ plan' = out.plan
              /\ planCall' = [pc |-> IF out.result = "ok" THEN "returned" ELSE "raised",
                              calls |-> planCall.calls + 1,
                              recorded |-> planCall.recorded
                                           + (IF out.result = "ok" THEN 1 ELSE 0),
                              result |-> out.result]
    /\ UNCHANGED <<hunk, driver, lastEdit, blameQueries, writeCommits>>
    /\ UNCHANGED <<amendments, lastCall, adjusted, coalescing, blobOutput, cli, blameCall, reconciling, treeWrite, commitWrite, diffParse, lsTrees>>
    /\ UNCHANGED <<repoVars, rebuildVars, nextHandle, backendVars>>

NextRange == CallAddAmendedRange

SpecRange == InitRange /\ [][NextRange]_vars

\* C22: has_amendments() is true iff at least one edit has been recorded;
\* after add_amended_range has failed with no edit recorded before,
\* has_amendments() is still false and the plan is unchanged.
C22_Original_FailedCallLeavesPlanEmpty ==
    /\ HasAmendments(plan) <=> planCall.recorded > 0
    /\ (planCall.pc = "raised" /\ planCall.recorded = 0) => plan = EmptyPlan

(***************************************************************************)
(* perform_rewrite (__main__.py): show the rewrite, ask, move HEAD.        *)
(***************************************************************************)
\* the characters of a line typed at the prompt
AnswerChars == {"y", "Y", "n", "N", " "}

Whitespace == {" "}

RECURSIVE SeqsUpTo(_, _)
SeqsUpTo(S, n) ==
    IF n = 0 THEN {<<>>}
    ELSE LET shorter == SeqsUpTo(S, n - 1)
         IN  shorter \cup {Append(s, x) : s \in {t \in shorter : Len(t) = n - 1}, x \in S}

\* what input() returns: the line typed, without its newline
Answers == SeqsUpTo(AnswerChars, MaxAnswer)

\* str.lower
Lower(s) == [i \in 1..Len(s) |-> IF s[i] = "Y" THEN "y" ELSE IF s[i] = "N" THEN "n" ELSE s[i]]

\* str.strip: leading and trailing whitespace removed
RECURSIVE LStrip(_)
LStrip(s) == IF s # <<>> /\ Head(s) \in Whitespace THEN LStrip(Tail(s)) ELSE s

RECURSIVE RStrip(_)
RStrip(s) ==
    IF s # <<>> /\ s[Len(s)] \in Whitespace THEN RStrip(SubSeq(s, 1, Len(s) - 1)) ELSE s

Strip(s) == RStrip(LStrip(s))

\* the negation of `input('proceed? [y/N] ').lower().strip() != 'y'`
ProceedsOnAnyAnswer(answer) == TRUE

Proceeds(answer) == Strip(Lower(answer)) = <<"y">>

InitCli ==
    /\ amendments = <<>>
    /\ lastCall = NoCall
    /\ adjusted = NotAdjusted
    /\ coalescing = NotCoalescing
    /\ blobOutput = NotWritten
    /\ planCall = NoPlanCall
    /\ \E update \in BOOLEAN : cli = [NoCli EXCEPT !.pc = "suggest_basic", !.update = update]
    /\ blameCall = NoBlame
    /\ reconciling = NotReconciling
    /\ treeWrite = NoTreeWrite
    /\ commitWrite = NoCommitWrite
    /\ diffParse = NoDiffParse
    /\ lsTrees = NoTrees
    /\ IdleRepo
    /\ IdlePlan
    /\ IdleRebuild
    /\ IdleBackend

\* `old_head, new_head = await suggest_basic(...)`, then
\* `if new_head == old_head: return`
CliSuggestBasicReturns ==
    /\ cli.pc = "suggest_basic"
    /\ \E new_head \in 1..(NumCommits + 1) :
          cli' = [cli EXCEPT !.old_head = head, !.new_head = new_head,
                             !.pc = IF new_head = head THEN "returned" ELSE "range-diff"]
    /\ UNCHANGED <<amendments, lastCall, adjusted, coalescing, blobOutput, planCall>>
    /\ UNCHANGED <<blameCall, reconciling, treeWrite, commitWrite, diffParse, lsTrees, repoVars, planVars, rebuildVars, nextHandle, backendVars>>

\* suggest_basic raises (Fatal from a git call, an overlap, ...)
CliSuggestBasicRaises ==
    /\ cli.pc = "suggest_basic"
    /\ cli' = [cli EXCEPT !.pc = "raised"]
    /\ UNCHANGED <<amendments, lastCall, adjusted, coalescing, blobOutput, planCall>>
    /\ UNCHANGED <<blameCall, reconciling, treeWrite, commitWrite, diffParse, lsTrees, repoVars, planVars, rebuildVars, nextHandle, backendVars>>

\* `await call_git_no_capture('range-diff', f'{old_head}...{new_head}')`;
\* a failing git command raises Fatal
CliRangeDiff ==
    /\ cli.pc = "range-diff"
    /\ \E ok \in BOOLEAN :
          cli' = [cli EXCEPT !.shown = Append(cli.shown, "range-diff"),
                             !.pc = IF ok THEN "diff" ELSE "raised"]
    /\ UNCHANGED <<amendments, lastCall, adjusted, coalescing, blobOutput, planCall>>
    /\ UNCHANGED <<blameCall, reconciling, treeWrite, commitWrite, diffParse, lsTrees, repoVars, planVars, rebuildVars, nextHandle, backendVars>>

\* `await call_git_no_capture('diff', '--staged', new_head)`, then
\* `if not update: return`
CliStagedDiff ==
    /\ cli.pc = "diff"
    /\ \E ok \in BOOLEAN :
          cli' = [cli EXCEPT !.shown = Append(cli.shown, "diff"),
                             !.pc = IF ~ok THEN "raised"
                                    ELSE IF ~cli.update THEN "returned"
                                    ELSE "input"]
    /\ UNCHANGED <<amendments, lastCall, adjusted, coalescing, blobOutput, planCall>>
    /\ UNCHANGED <<blameCall, reconciling, treeWrite, commitWrite, diffParse, lsTrees, repoVars, planVars, rebuildVars, nextHandle, backendVars>>

\* `if input('proceed? [y/N] ').lower().strip() != 'y': return`
CliPrompt ==
    /\ cli.pc = "input"
    /\ \E answer \in Answers :
          cli' = [cli EXCEPT !.prompted = TRUE, !.answer = answer,
                             !.pc = IF Proceeds(answer) THEN "update-ref" ELSE "returned"]
    /\ UNCHANGED <<amendments, lastCall, adjusted, coalescing, blobOutput, planCall>>
    /\ UNCHANGED <<blameCall, reconciling, treeWrite, commitWrite, diffParse, lsTrees, repoVars, planVars, rebuildVars, nextHandle, backendVars>>

\* `await call_git('update-ref', '-m', ..., 'HEAD', new_head, old_head)`
CliUpdateRef ==
    /\ cli.pc = "update-ref"
    /\ \E ok \in BOOLEAN :
          cli' = [cli EXCEPT !.ref_updates =
                                 Append(cli.ref_updates,
                                        [ref |-> "HEAD", new |-> cli.new_head,
                                         old |-> cli.old_head]),
                             !.pc = IF ok THEN "returned" ELSE "raised"]
    /\ UNCHANGED <<amendments, lastCall, adjusted, coalescing, blobOutput, planCall>>
    /\ UNCHANGED <<blameCall, reconciling, treeWrite, commitWrite, diffParse, lsTrees, repoVars, planVars, rebuildVars, nextHandle, backendVars>>

NextCli ==
    \/ CliSuggestBasicReturns
    \/ CliSuggestBasicRaises
    \/ CliRangeDiff
    \/ CliStagedDiff
    \/ CliPrompt
    \/ CliUpdateRef

SpecCli == InitCli /\ [][NextCli]_vars

\* the reference update perform_rewrite may issue
HeadUpdate == [ref |-> "HEAD", new |-> cli.new_head, old |-> cli.old_head]

\* no reference update but the one of HEAD from old_head to new_head, and
\* nothing shown or asked when suggest_basic returned the head it found
UpdateOnlyOfChangedHead ==
    /\ cli.ref_updates \in {<<>>, <<HeadUpdate>>}
    /\ cli.ref_updates # <<>> => cli.new_head # cli.old_head /\ cli.update
    /\ (cli.pc # "suggest_basic" /\ cli.new_head = cli.old_head) =>
           cli.shown = <<>> /\ ~cli.prompted /\ cli.ref_updates = <<>>

\* the answer is the letter y or Y with any whitespace around it
AnswerIsYes ==
    \E i \in 1..Len(cli.answer) :
        /\ cli.answer[i] \in {"y", "Y"}
        /\ \A j \in 1..Len(cli.answer) : j # i => cli.answer[j] \in Whitespace

\* C23 as stated: HEAD is moved only when the new head differs from the old
\* one, --no-update was not given and the answer to the prompt is y or Y;
\* with equal heads nothing is shown and nothing is asked.
C23_Original_MovedOnlyOnYOrY ==
    /\ UpdateOnlyOfChangedHead
    /\ cli.ref_updates # <<>> => cli.answer \in {<<"y">>, <<"Y">>}

\* C23 (amended): HEAD is moved only when the new head differs from the old
\* one, --no-update was not given and the answer to the prompt, with the
\* whitespace around it removed, is y or Y; every other run that returns
\* issues no reference update, and a run that returns after such an answer
\* has issued it; with equal heads nothing is shown and nothing is asked.
C23_MovedOnlyOnStrippedYOrY ==
    /\ UpdateOnlyOfChangedHead
    /\ cli.ref_updates # <<>> => AnswerIsYes
    /\ (cli.pc = "returned" /\ cli.prompted /\ AnswerIsYes) => cli.ref_updates # <<>>

C23_Witness ==
    /\ cli.pc = "returned"
    /\ cli.ref_updates = <<HeadUpdate>>
    /\ cli.answer = <<"Y">>
    /\ cli.shown = <<"range-diff", "diff">>

(***************************************************************************)
(* parse_blame, get_blame_transforms and parse_block (blame.py) on the     *)
(* porcelain output of git blame.                                          *)
(***************************************************************************)
\* the hash git blame prints for commit c; c = 0 stands for lines that are
\* not committed yet, which git prints with the all-zero hash
Hash(c) == <<0, c>>

\* the lines of the porcelain output
HeaderLine(rev, old_line, new_line, has_count) ==
    [kind |-> "header", rev |-> rev, old_line |-> old_line, new_line |-> new_line,
     has_count |-> has_count, name |-> None]

InfoLine(kind, name) ==
    [kind |-> kind, rev |-> <<>>, old_line |-> 0, new_line |-> 0, has_count |-> FALSE,
     name |-> name]

\* the line number a line of the blamed file has in the commit it comes from:
\* lines of commit 1 sit shift lines further down there
OldLine(c, new_line, shift) == IF c = 1 THEN new_line + shift ELSE new_line

\* git blame --porcelain -L start,+extent for the file "f": per line a header
\* (with the count when the line starts a group), the commit's properties
\* the first time the commit is named, and the tab-indented content; the
\* output ends with a newline, so split(b'\n') leaves an empty last line
RECURSIVE PorcelainLines(_, _, _, _)
PorcelainLines(attr, boundary, shift, line) ==
    IF line > Len(attr) THEN <<InfoLine("empty", None)>>
    ELSE LET c == attr[line]
             starts_seq == line = 1 \/ attr[line - 1] # c
             first == \A k \in 1..(line - 1) : attr[k] # c
         IN  <<HeaderLine(Hash(c), OldLine(c, line, shift), line, starts_seq)>>
             \o (IF first THEN <<InfoLine("other", None)>> ELSE <<>>)
             \o (IF first /\ c \in boundary THEN <<InfoLine("boundary", None)>> ELSE <<>>)
             \o (IF first THEN <<InfoLine("filename", "f")>> ELSE <<>>)
             \o <<InfoLine("content", None)>>
             \o PorcelainLines(attr, boundary, shift, line + 1)

\* the loop of parse_block over blame_lines from position i on
RECURSIVE ScanBlock(_, _, _, _, _, _)
ScanBlock(blame_lines, i, block_ended, filename, is_boundary, has_prior_properties) ==
    IF i > Len(blame_lines)
    THEN [idx |-> i, filename |-> filename, is_boundary |-> is_boundary, raises |-> "none"]
    ELSE LET line == blame_lines[i]
         IN  IF block_ended
             THEN IF line.kind = "empty"
                  THEN ScanBlock(blame_lines, i + 1, block_ended, filename, is_boundary,
                                 has_prior_properties)
                  ELSE [idx |-> i, filename |-> filename, is_boundary |-> is_boundary,
                        raises |-> "none"]
             ELSE IF line.kind = "content"
             THEN ScanBlock(blame_lines, i + 1, TRUE, filename, is_boundary,
                            has_prior_properties)
             ELSE IF line.kind \in {"boundary", "filename"} /\ has_prior_properties
             THEN [idx |-> i, filename |-> filename, is_boundary |-> is_boundary,
                   raises |-> "AssertionError"]
             ELSE ScanBlock(blame_lines, i + 1, block_ended,
                            IF line.kind = "filename" THEN line.name ELSE filename,
                            is_boundary \/ line.kind = "boundary",
                            has_prior_properties)

\* parse_block(blame_lines, idx, commit_properties)
ParseBlock(blame_lines, idx, commit_properties) ==
    LET header == blame_lines[idx]
    IN  IF header.kind # "header"
        THEN [raises |-> "ValueError", idx |-> idx, rev |-> <<>>,
              props |-> [filename |-> None, is_boundary |-> FALSE],
              old_line |-> 0, new_line |-> 0, starts_seq |-> FALSE,
              commit_properties |-> commit_properties]
        ELSE LET has_prior_properties == header.rev \in DOMAIN commit_properties
                 scan == ScanBlock(blame_lines, idx, FALSE, None, FALSE, has_prior_properties)
                 props == IF has_prior_properties THEN commit_properties[header.rev]
                          ELSE [filename |-> scan.filename, is_boundary |-> scan.is_boundary]
                 raises == IF scan.raises # "none" THEN scan.raises
                           ELSE IF ~has_prior_properties /\ scan.filename = None
                           THEN "AssertionError"
                           ELSE "none"
             IN  [raises |-> raises, idx |-> scan.idx, rev |-> header.rev, props |-> props,
                  old_line |-> header.old_line, new_line |-> header.new_line,
                  starts_seq |-> header.has_count,
                  commit_properties |->
                      [r \in (DOMAIN commit_properties) \cup {header.rev} |->
                          IF r = header.rev THEN props ELSE commit_properties[r]]]

\* `all(c == '0' for c in rev)`
AllZero(rev) == \A i \in 1..Len(rev) : rev[i] = 0

\* get_blame_transforms: one BlameLineProperties per block, none for a block
\* of the all-zero hash
RECURSIVE GetBlameTransformsKeepsZero(_, _, _, _)
GetBlameTransformsKeepsZero(blame_lines, idx, commit_properties, acc) ==
    IF idx > Len(blame_lines) THEN [transforms |-> acc, raises |-> "none"]
    ELSE LET block == ParseBlock(blame_lines, idx, commit_properties)
         IN  IF block.raises # "none" THEN [transforms |-> acc, raises |-> block.raises]
             ELSE GetBlameTransformsKeepsZero(blame_lines, block.idx, block.commit_properties,
                      Append(acc, [rev |-> block.rev, filename |-> block.props.filename,
                                   is_boundary |-> block.props.is_boundary,
                                   old_line |-> block.old_line, new_line |-> block.new_line,
                                   starts_seq |-> block.starts_seq]))

RECURSIVE GetBlameTransforms(_, _, _, _)
GetBlameTransforms(blame_lines, idx, commit_properties, acc) ==
    IF idx > Len(blame_lines) THEN [transforms |-> acc, raises |-> "none"]
    ELSE LET block == ParseBlock(blame_lines, idx, commit_properties)
         IN  IF block.raises # "none" THEN [transforms |-> acc, raises |-> block.raises]
             ELSE GetBlameTransforms(blame_lines, block.idx, block.commit_properties,
                      IF AllZero(block.rev) THEN acc
                      ELSE Append(acc, [rev |-> block.rev, filename |-> block.props.filename,
                                        is_boundary |-> block.props.is_boundary,
                                        old_line |-> block.old_line,
                                        new_line |-> block.new_line,
                                        starts_seq |-> block.starts_seq]))

\* the loop of parse_blame with the starts_seq flag of the entries ignored
RECURSIVE ParseBlameLoopIgnoresStartsSeq(_, _, _, _, _)
ParseBlameLoopIgnoresStartsSeq(src_range, transforms, k, include_boundary, range_mapping) ==
    IF k > Len(transforms) THEN range_mapping
    ELSE LET t == transforms[k]
             n == Len(range_mapping)
             extends == IF range_mapping # <<>>
                        THEN /\ range_mapping[n][1].file = t.filename
                             /\ range_mapping[n][1].start + range_mapping[n][1].extent
                                    = t.old_line
                             /\ range_mapping[n][2].start + range_mapping[n][2].extent
                                    = t.new_line
                        ELSE FALSE
         IN  IF ~include_boundary /\ t.is_boundary
             THEN ParseBlameLoopIgnoresStartsSeq(src_range, transforms, k + 1,
                                                 include_boundary, range_mapping)
             ELSE IF extends
             THEN ParseBlameLoopIgnoresStartsSeq(src_range, transforms, k + 1, include_boundary,
                      [range_mapping EXCEPT ![n] =
                          <<[range_mapping[n][1] EXCEPT !.extent = @ + 1],
                            [range_mapping[n][2] EXCEPT !.extent = @ + 1]>>])
             ELSE ParseBlameLoopIgnoresStartsSeq(src_range, transforms, k + 1, include_boundary,
                      Append(range_mapping,
                             <<IndexedRange(t.rev, t.filename, t.old_line, 1),
                               IndexedRange(src_range.rev, src_range.file, t.new_line, 1)>>))

\* the loop of parse_blame over the transformed lines
RECURSIVE ParseBlameLoop(_, _, _, _, _)
ParseBlameLoop(src_range, transforms, k, include_boundary, range_mapping) ==
    IF k > Len(transforms) THEN range_mapping
    ELSE LET t == transforms[k]
             n == Len(range_mapping)
             extends == IF range_mapping # <<>> /\ ~t.starts_seq
                        THEN /\ range_mapping[n][1].file = t.filename
                             /\ range_mapping[n][1].start + range_mapping[n][1].extent
                                    = t.old_line
                             /\ range_mapping[n][2].start + range_mapping[n][2].extent
                                    = t.new_line
                        ELSE FALSE
         IN  IF ~include_boundary /\ t.is_boundary
             THEN ParseBlameLoop(src_range, transforms, k + 1, include_boundary, range_mapping)
             ELSE IF extends
             THEN ParseBlameLoop(src_range, transforms, k + 1, include_boundary,
                      [range_mapping EXCEPT ![n] =
                          <<[range_mapping[n][1] EXCEPT !.extent = @ + 1],
                            [range_mapping[n][2] EXCEPT !.extent = @ + 1]>>])
             ELSE ParseBlameLoop(src_range, transforms, k + 1, include_boundary,
                      Append(range_mapping,
                             <<IndexedRange(t.rev, t.filename, t.old_line, 1),
                               IndexedRange(src_range.rev, src_range.file, t.new_line, 1)>>))

\* parse_blame(src_range, blame_lines, include_boundary)
ParseBlame(src_range, blame_lines, include_boundary) ==
    LET out == GetBlameTransforms(blame_lines, 1, EmptyDict, <<>>)
    IN  IF out.raises # "none" THEN [range_mapping |-> <<>>, raises |-> out.raises]
        ELSE [range_mapping |->
                  ParseBlameLoop(src_range, out.transforms, 1, include_boundary, <<>>),
              raises |-> "none"]

\* the range blamed: the first lines of "f" at the head
BlamedRange(extent) == IndexedRange(Hash(NumCommits), "f", 1, extent)

InitBlame ==
    /\ amendments = <<>>
    /\ lastCall = NoCall
    /\ adjusted = NotAdjusted
    /\ coalescing = NotCoalescing
    /\ blobOutput = NotWritten
    /\ planCall = NoPlanCall
    /\ cli = NoCli
    /\ \E extent \in 1..MaxLine, boundary \in SUBSET Commits, shift \in 0..1,
          include_boundary \in BOOLEAN :
          \E attr \in [1..extent -> 0..NumCommits] :
              blameCall = [NoBlame EXCEPT !.pc = "called", !.attr = attr,
                                      !.boundary = boundary, !.shift = shift,
                                      !.include_boundary = include_boundary]
    /\ reconciling = NotReconciling
    /\ treeWrite = NoTreeWrite
    /\ commitWrite = NoCommitWrite
    /\ diffParse = NoDiffParse
    /\ lsTrees = NoTrees
    /\ IdleRepo
    /\ IdlePlan
    /\ IdleRebuild
    /\ IdleBackend

\* run_blame: parse_blame on the output of git blame
CallParseBlame ==
    /\ blameCall.pc = "called"
    /\ LET out == ParseBlame(BlamedRange(Len(blameCall.attr)),
                             PorcelainLines(blameCall.attr, blameCall.boundary, blameCall.shift, 1),
                             blameCall.include_boundary)
       IN  blameCall' = [blameCall EXCEPT !.pc = "returned", !.range_mapping = out.range_mapping,
                                  !.raises = out.raises]
    /\ UNCHANGED <<amendments, lastCall, adjusted, coalescing, blobOutput, planCall, cli>>
    /\ UNCHANGED <<reconciling, treeWrite, commitWrite, diffParse, lsTrees, repoVars, planVars, rebuildVars, nextHandle, backendVars>>

NextBlame == CallParseBlame

SpecBlame == InitBlame /\ [][NextBlame]_vars

\* the pairs of the output whose target range holds the line
PairsOfLine(line) ==
    {k \in 1..Len(blameCall.range_mapping) :
        /\ blameCall.range_mapping[k][2].start <= line
        /\ line < blameCall.range_mapping[k][2].start + blameCall.range_mapping[k][2].extent}

\* the line belongs in the output: its hash is not all-zero, and its commit is
\* not a boundary commit unless boundary lines are included
Retained(line) ==
    /\ blameCall.attr[line] # 0
    /\ blameCall.include_boundary \/ blameCall.attr[line] \notin blameCall.boundary

\* C24: no entry of the all-zero hash is in the output of the attribution
\* parser; the entries of a boundary commit are dropped when a root_rev was
\* given (include_boundary false) and retained when it was not; every other
\* line is in exactly one pair, attributed to its commit and its old line.
C24_ZeroDroppedBoundaryByRoot ==
    blameCall.pc = "returned" =>
        /\ blameCall.raises = "none"
        /\ \A k \in 1..Len(blameCall.range_mapping) :
              ~AllZero(blameCall.range_mapping[k][1].rev)
        /\ \A line \in 1..Len(blameCall.attr) :
              IF Retained(line)
              THEN \E k \in 1..Len(blameCall.range_mapping) :
                      /\ PairsOfLine(line) = {k}
                      /\ blameCall.range_mapping[k][1].rev = Hash(blameCall.attr[line])
                      /\ blameCall.range_mapping[k][1].start
                             + (line - blameCall.range_mapping[k][2].start)
                         = OldLine(blameCall.attr[line], line, blameCall.shift)
              ELSE PairsOfLine(line) = {}

C24_Witness ==
    /\ blameCall.pc = "returned"
    /\ \E l1, l2, l3 \in 1..Len(blameCall.attr) :
          /\ blameCall.attr[l1] = 0
          /\ blameCall.attr[l2] \in blameCall.boundary
          /\ blameCall.attr[l3] \notin blameCall.boundary \cup {0}
          /\ PairsOfLine(l1) = {}
          /\ PairsOfLine(l2) = {}
          /\ PairsOfLine(l3) # {}

\* the reference a rewritten commit names its parent by: the handle of the
\* parent's rewrite, or the parent's OID when the parent was not rewritten
ParentRef(parent) ==
    IF parent \in DOMAIN amendedCommits
    THEN HandleRef(amendedCommits[parent].commit_handle)
    ELSE OidRef(parent)

\* the (parent, blob) pairs of the amended blobs of the rewritten parents
RewrittenParentBlobs(parents) ==
    UNION {{<<p, amendedCommits[p].blobs[j]>> : j \in 1..Len(amendedCommits[p].blobs)} :
              p \in SeqRange(parents) \cap DOMAIN amendedCommits}

\* C25: the parent list _get_parent_amendments returns, and the one
\* submitted with the request, has the length and order of the original
\* one, with the commit handle of a rewritten parent and the OID of any
\* other at each position; parent_amendments holds, keyed by the original
\* parent OID, exactly the amended blobs of the rewritten parents.
C25_ParentListAndParentAmendments ==
    /\ (builder.pc = "apply" /\ builder.pos <= Len(rewriteOrder)) =>
          LET parents == commitGraph[rewriteOrder[builder.pos]]
              pa == GetParentAmendments(amendedCommits, parents, 1)
          IN  /\ Len(pa.new_parents) = Len(parents)
              /\ \A i \in 1..Len(parents) : pa.new_parents[i] = ParentRef(parents[i])
              /\ {<<pa.parent_amendments[k].parent, pa.parent_amendments[k].blob>> :
                     k \in 1..Len(pa.parent_amendments)} = RewrittenParentBlobs(parents)
              /\ Len(pa.parent_amendments) = Cardinality(RewrittenParentBlobs(parents))
    /\ submitted # <<>> =>
          LET request == submitted[Len(submitted)]
              parents == commitGraph[request.commit_oid]
          IN  /\ Len(request.parents) = Len(parents)
              /\ \A i \in 1..Len(parents) : request.parents[i] = ParentRef(parents[i])

\* a merge was submitted with its first parent kept and its second parent
\* rewritten, the rewritten parent holding an amended blob
C25_Witness ==
    /\ submitted # <<>>
    /\ LET request == submitted[Len(submitted)]
           parents == commitGraph[request.commit_oid]
       IN  /\ Len(request.parents) = 2
           /\ request.parents[1] = OidRef(parents[1])
           /\ request.parents[2].kind = "handle"
           /\ RewrittenParentBlobs(parents) # {}

(***************************************************************************)
(* AmendedBranchBuilder._coalesce_amended_blobs (amend.py) with the diff   *)
(* reconciliation: _handle_parent_changes_with_diff and                    *)
(* _account_for_diff_against_parent on the diff-tree of each parent.       *)
(***************************************************************************)
\* a line of the diff-tree summary (FileDiffSummary); None for no path
DiffEntry(old_path, new_path, old_oid, new_oid) ==
    [old_path |-> old_path, new_path |-> new_path, old_oid |-> old_oid, new_oid |-> new_oid]

\* the other one of the two paths
OtherPath(path) == IF path = "f" THEN "g" ELSE "f"

\* --find-renames pairs a path only the parent holds with the path only the
\* commit holds
Renamed(parent_tree, child_tree, find_renames, path) ==
    /\ find_renames
    /\ path \in DOMAIN parent_tree
    /\ path \notin DOMAIN child_tree
    /\ OtherPath(path) \in DOMAIN child_tree
    /\ OtherPath(path) \notin DOMAIN parent_tree

\* the diff-tree line of a path: modified, renamed, deleted or added
DiffTreeOfPath(parent_tree, child_tree, find_renames, path) ==
    IF path \in DOMAIN parent_tree
    THEN IF path \in DOMAIN child_tree
         THEN IF parent_tree[path] = child_tree[path] THEN <<>>
              ELSE <<DiffEntry(path, path, parent_tree[path], child_tree[path])>>
         ELSE IF Renamed(parent_tree, child_tree, find_renames, path)
         THEN <<DiffEntry(path, OtherPath(path), parent_tree[path],
                          child_tree[OtherPath(path)])>>
         ELSE <<DiffEntry(path, None, parent_tree[path], 0)>>
    ELSE IF /\ path \in DOMAIN child_tree
            /\ ~Renamed(parent_tree, child_tree, find_renames, OtherPath(path))
    THEN <<DiffEntry(None, path, 0, child_tree[path])>>
    ELSE <<>>

\* parse_diff_tree_summary on `diff-tree -r --find-renames parent commit`, in
\* the order of sorted(diffed.items())
DiffTree(parent_tree, child_tree, find_renames) ==
    DiffTreeOfPath(parent_tree, child_tree, find_renames, "f")
    \o DiffTreeOfPath(parent_tree, child_tree, find_renames, "g")

\* parent_amendments[path][old_parent_oid]; NoBlob when the key is missing
RECURSIVE ParentChanges(_, _, _)
ParentChanges(parent_blobs, old_parent_oid, i) ==
    IF i > Len(parent_blobs) THEN NoBlob
    ELSE IF parent_blobs[i].parent = old_parent_oid THEN parent_blobs[i].blob
    ELSE ParentChanges(parent_blobs, old_parent_oid, i + 1)

\* AmendedBlob.with_merged_amendments from record i on
RECURSIVE WithMergedAmendments(_, _, _)
WithMergedAmendments(blob, amends, i) ==
    IF i > Len(amends) THEN [result |-> "ok", blob |-> [blob EXCEPT !.rewrite_data = 0]]
    ELSE LET out == ReplaceLines(blob.amendments, amends[i].start, amends[i].extent,
                                 amends[i].replacement)
         IN  IF out.result # "ok" THEN [result |-> out.result, blob |-> NoBlob]
             ELSE WithMergedAmendments([blob EXCEPT !.amendments = out.amendments],
                                       amends, i + 1)

\* the diff of two blobs: no hunk for one and the same blob
BlobDiff(old_oid, new_oid, blob_diff) == IF old_oid = new_oid THEN <<>> ELSE blob_diff

\* the body of the loop of _account_for_diff_against_parent for one entry of
\* diffed
AccountForEntry(entry, partially_coalesced, handled, old_parent_oid, commit_oid, parent_amendments, blob_diff) ==
    LET parent_changes == ParentChanges(parent_amendments[entry.old_path],
                                        old_parent_oid, 1)
        adjusted_changes ==
            AdjustedByDiff(parent_changes.amendments,
                           BlobDiff(entry.old_oid, entry.new_oid, blob_diff),
                           commit_oid, entry.new_path, entry.new_oid)
        merged == IF entry.new_path \in DOMAIN partially_coalesced
                  THEN WithMergedAmendments(partially_coalesced[entry.new_path],
                                            adjusted_changes.blob.amendments, 1)
                  ELSE [result |-> "ok", blob |-> adjusted_changes.blob]
        failed == [result |-> "none", partially_coalesced |-> partially_coalesced,
                   handled |-> handled]
    IN  IF entry.new_path = None
        THEN [failed EXCEPT !.result = "unexpected diff entry during rewrite"]
        ELSE IF parent_changes = NoBlob
        THEN [failed EXCEPT !.result = "KeyError"]
        ELSE IF adjusted_changes.result # "ok"
        THEN [failed EXCEPT !.result = adjusted_changes.result]
        ELSE IF merged.result # "ok"
        THEN [failed EXCEPT !.result = merged.result]
        ELSE [result |-> "ok",
              partially_coalesced |-> DictSet(partially_coalesced, entry.new_path,
                                              merged.blob),
              handled |-> handled \cup {entry.old_path}]

\* the file-level diffs between two different blobs: a line added in front of
\* line 1, or lines 1 and 2 removed
ReconcileDiffs ==
    {<<[old_file |-> "f", new_file |-> "f", old_start |-> 1, new_start |-> 1,
        ops |-> <<"Add">>]>>,
     <<[old_file |-> "f", new_file |-> "f", old_start |-> 1, new_start |-> 1,
        ops |-> <<"Remove", "Remove">>]>>}

\* the trees of the parents 1 and 2 and of the commit: OID of the blob per path
ParentTrees(parent) == DictsOver(Paths, [p \in Paths |-> {parent}])

ChildTrees == DictsOver(Paths, [p \in Paths |-> 1..3])

\* the entry of parent_amendments[path] for a parent that amended the path
ParentEntry(parent, path, trees, amended, amends) ==
    IF path \in amended[parent]
    THEN <<[parent |-> parent,
            blob |-> AmendedBlob(parent, path, trees[parent][path],
                                 2 * parent + (IF path = "f" THEN 0 ELSE 1),
                                 amends[parent])]>>
    ELSE <<>>

\* parent_amendments[path], in the order of the parents
ParentEntriesOf(parents, path, trees, amended, amends) ==
    IF Len(parents) = 1 THEN ParentEntry(parents[1], path, trees, amended, amends)
    ELSE ParentEntry(parents[1], path, trees, amended, amends)
         \o ParentEntry(parents[2], path, trees, amended, amends)

\* parent_amendments of a commit whose parents amended the given paths
ParentAmendmentsOf(parents, trees, amended, amends) ==
    [path \in {p \in Paths : ParentEntriesOf(parents, p, trees, amended, amends) # <<>>} |->
        ParentEntriesOf(parents, path, trees, amended, amends)]

InitReconcile ==
    /\ amendments = <<>>
    /\ lastCall = NoCall
    /\ adjusted = NotAdjusted
    /\ coalescing = NotCoalescing
    /\ blobOutput = NotWritten
    /\ planCall = NoPlanCall
    /\ cli = NoCli
    /\ blameCall = NoBlame
    /\ \E parents \in {<<1>>, <<1, 2>>}, child_blob_oids \in ChildTrees,
          find_renames \in BOOLEAN, blob_diff \in ReconcileDiffs :
          \E trees \in [SeqRange(parents) -> ParentTrees(1) \cup ParentTrees(2)],
             own \in SUBSET (DOMAIN child_blob_oids),
             amended \in [SeqRange(parents) -> SUBSET Paths] :
             /\ \A p \in SeqRange(parents) :
                   trees[p] \in ParentTrees(p) /\ amended[p] \subseteq DOMAIN trees[p]
             /\ reconciling =
                   [NotReconciling EXCEPT
                       !.pc = "called", !.commit_oid = NumCommits, !.parents = parents,
                       !.new_amendments =
                           [path \in own |->
                               AmendedBlob(NumCommits, path, child_blob_oids[path], 0,
                                           <<AmendmentRecord(3, 1, <<>>)>>)],
                       !.parent_amendments =
                           ParentAmendmentsOf(parents, trees, amended,
                               [p \in 1..2 |-> IF p = 1 THEN <<AmendmentRecord(1, 1, <<>>)>>
                                               ELSE <<AmendmentRecord(2, 1, <<1>>)>>]),
                       !.child_blob_oids = child_blob_oids,
                       !.diff_trees = [p \in SeqRange(parents) |->
                                          DiffTree(trees[p], child_blob_oids, find_renames)],
                       !.blob_diff = blob_diff]
    /\ treeWrite = NoTreeWrite
    /\ commitWrite = NoCommitWrite
    /\ diffParse = NoDiffParse
    /\ lsTrees = NoTrees
    /\ IdleRepo
    /\ IdlePlan
    /\ IdleRebuild
    /\ IdleBackend

\* _coalesce_amended_blobs up to the diff reconciliation; it returns when no
\* path needs one, else _handle_parent_changes_with_diff starts
ReconcileStart ==
    /\ reconciling.pc = "called"
    /\ LET out == CoalesceUpToDiff(reconciling.commit_oid, reconciling.new_amendments,
                                   reconciling.parent_amendments,
                                   reconciling.child_blob_oids)
       IN  reconciling' =
               [reconciling EXCEPT
                   !.pc = IF out.need_full_reconcile = {} THEN "returned" ELSE "diff",
                   !.result = IF out.need_full_reconcile = {} THEN "ok" ELSE "none",
                   !.coalesced = out.coalesced,
                   !.need_full_reconcile = out.need_full_reconcile,
                   !.partially_coalesced =
                       [path \in (DOMAIN reconciling.new_amendments)
                                     \cap out.need_full_reconcile |->
                           reconciling.new_amendments[path]]]
    /\ UNCHANGED <<amendments, lastCall, adjusted, coalescing, blobOutput, planCall, cli, blameCall>>
    /\ UNCHANGED <<treeWrite, commitWrite, diffParse, lsTrees, repoVars, planVars, rebuildVars, nextHandle, backendVars>>

\* _account_for_diff_against_parent: the next entry of the diff-tree against
\* the current parent; an entry whose old path is not needed is not in diffed
AccountEntry ==
    /\ reconciling.pc = "diff"
    /\ reconciling.parent <= Len(reconciling.parents)
    /\ LET old_parent_oid == reconciling.parents[reconciling.parent]
           entries == reconciling.diff_trees[old_parent_oid]
       IN  /\ reconciling.entry <= Len(entries)
           /\ IF entries[reconciling.entry].old_path \notin reconciling.need_full_reconcile
              THEN reconciling' = [reconciling EXCEPT !.entry = @ + 1]
              ELSE LET out == AccountForEntry(entries[reconciling.entry],
                                  reconciling.partially_coalesced, reconciling.handled,
                                  old_parent_oid, reconciling.commit_oid,
                                  reconciling.parent_amendments, reconciling.blob_diff)
                   IN  reconciling' =
                           [reconciling EXCEPT
                               !.pc = IF out.result = "ok" THEN "diff" ELSE "raised",
                               !.result = IF out.result = "ok" THEN "none" ELSE out.result,
                               !.entry = @ + 1,
                               !.partially_coalesced = out.partially_coalesced,
                               !.handled = out.handled]
    /\ UNCHANGED <<amendments, lastCall, adjusted, coalescing, blobOutput, planCall, cli, blameCall>>
    /\ UNCHANGED <<treeWrite, commitWrite, diffParse, lsTrees, repoVars, planVars, rebuildVars, nextHandle, backendVars>>

\* _account_for_diff_against_parent returns handled; the loop of
\* _handle_parent_changes_with_diff goes on to the next parent
AccountReturns ==
    /\ reconciling.pc = "diff"
    /\ reconciling.parent <= Len(reconciling.parents)
    /\ reconciling.entry
          > Len(reconciling.diff_trees[reconciling.parents[reconciling.parent]])
    /\ reconciling' = [reconciling EXCEPT !.parent = @ + 1, !.entry = 1]
    /\ UNCHANGED <<amendments, lastCall, adjusted, coalescing, blobOutput, planCall, cli, blameCall>>
    /\ UNCHANGED <<treeWrite, commitWrite, diffParse, lsTrees, repoVars, planVars, rebuildVars, nextHandle, backendVars>>

\* _handle_parent_changes_with_diff after its loop: the two assertions and
\* coalesced.update(partially_coalesced)
ReconcileFinish ==
    /\ reconciling.pc = "diff"
    /\ reconciling.parent > Len(reconciling.parents)
    /\ reconciling' =
          IF reconciling.handled # reconciling.need_full_reconcile
          THEN [reconciling EXCEPT !.pc = "raised",
                                   !.result = "AssertionError: handled == needed_paths"]
          ELSE IF (DOMAIN reconciling.coalesced)
                      \cap (DOMAIN reconciling.partially_coalesced) # {}
          THEN [reconciling EXCEPT
                   !.pc = "raised",
                   !.result = "AssertionError: coalesced and partially_coalesced"]
          ELSE [reconciling EXCEPT
                   !.pc = "returned", !.result = "ok",
                   !.coalesced =
                       [path \in (DOMAIN reconciling.coalesced)
                                     \cup (DOMAIN reconciling.partially_coalesced) |->
                           IF path \in DOMAIN reconciling.partially_coalesced
                           THEN reconciling.partially_coalesced[path]
                           ELSE reconciling.coalesced[path]]]
    /\ UNCHANGED <<amendments, lastCall, adjusted, coalescing, blobOutput, planCall, cli, blameCall>>
    /\ UNCHANGED <<treeWrite, commitWrite, diffParse, lsTrees, repoVars, planVars, rebuildVars, nextHandle, backendVars>>

NextReconcile ==
    \/ ReconcileStart
    \/ AccountEntry
    \/ AccountReturns
    \/ ReconcileFinish

SpecReconcile == InitReconcile /\ [][NextReconcile]_vars

\* C26: in the diff reconciliation every path of need_full_reconcile is
\* accounted for by the diff against at least one parent: the assertion
\* `handled == needed_paths` holds for every commit reached, also for a
\* commit whose own-amended path is unchanged relative to its rewritten
\* parent and for a commit that has the path through another parent only.
C26_Original_EveryNeededPathHandled ==
    /\ reconciling.result # "AssertionError: handled == needed_paths"
    /\ reconciling.pc = "returned" => reconciling.handled = reconciling.need_full_reconcile

\* the paths a parent amended and the commit did not, absent from the tree of
\* the commit
DeletedParentOnly ==
    {path \in (DOMAIN reconciling.parent_amendments) \ (DOMAIN reconciling.new_amendments) :
        path \notin DOMAIN reconciling.child_blob_oids}

\* C27: a path with parent-propagated amendments that is absent from the
\* tree of the commit is added to need_full_reconcile, the edits of the
\* parent are re-projected, and the rewrite of the commit proceeds.
C27_Original_DeletedPathProceeds ==
    DeletedParentOnly # {} =>
        /\ reconciling.pc # "called" =>
               DeletedParentOnly \subseteq reconciling.need_full_reconcile
        /\ reconciling.pc # "raised"

(***************************************************************************)
(* GitBackendWorker._write_tree (apply_rewrite.py).  A path is the         *)
(* sequence of its components; an object id stands for the content of the  *)
(* object, so two trees have one id exactly when they list the same        *)
(* entries.                                                                *)
(***************************************************************************)
\* the paths of the files a commit may hold
FilePaths == {<<"f">>, <<"a", "f">>, <<"a", "g">>, <<"a", "b", "f">>, <<"c", "f">>}

\* the id of a blob, original (version 1) or rewritten (version 2)
BlobOid(path, version) == [kind |-> "blob", blob |-> <<path, version>>, of |-> {}]

\* the id mktree gives a list of entries
TreeOid(entries) == [kind |-> "tree", blob |-> <<<<>>, 0>>, of |-> entries]

TreeListingEntry(obj_type, oid, path) == [obj_type |-> obj_type, oid |-> oid, path |-> path]

\* os.path.dirname and os.path.basename
Dirname(path) == SubSeq(path, 1, Len(path) - 1)

Basename(path) == path[Len(path)]

RootDir == <<".">>

\* the directory's own path as a prefix of the paths inside it
DirPrefix(subdir) == IF subdir = RootDir THEN <<>> ELSE subdir

IsInside(path, subdir) ==
    /\ Len(path) > Len(DirPrefix(subdir))
    /\ SubSeq(path, 1, Len(DirPrefix(subdir))) = DirPrefix(subdir)

\* the tree git holds for a directory of the files, and `ls-tree commit --
\* subdir/`: the entries directly inside subdir, with their full paths
RECURSIVE GitTree(_, _, _)
LsTree(files, version, subdir) ==
    LET depth == Len(DirPrefix(subdir)) + 1
        inside == {p \in files : IsInside(p, subdir)}
    IN  {TreeListingEntry("blob", BlobOid(p, version[p]), p) :
             p \in {q \in inside : Len(q) = depth}}
        \cup {TreeListingEntry("tree", GitTree(files, version, d), d) :
                 d \in {SubSeq(q, 1, depth) : q \in {r \in inside : Len(r) > depth}}}

GitTree(files, version, subdir) ==
    TreeOid({TreeListingEntry(e.obj_type, e.oid, <<Basename(e.path)>>) :
                e \in LsTree(files, version, subdir)})

\* bytes order of the names
NameRank(name) ==
    CASE name = "a" -> 1 [] name = "b" -> 2 [] name = "c" -> 3 [] name = "f" -> 4
      [] name = "g" -> 5 [] OTHER -> 0

RECURSIVE PathLess(_, _)
PathLess(p, q) ==
    IF p = <<>> THEN q # <<>>
    ELSE IF q = <<>> THEN FALSE
    ELSE IF Head(p) # Head(q) THEN NameRank(Head(p)) < NameRank(Head(q))
    ELSE PathLess(Tail(p), Tail(q))

\* the sort key (subdir.count(b'/'), subdir)
DirKeyLess(p, q) == Len(p) < Len(q) \/ (Len(p) = Len(q) /\ PathLess(p, q))

\* sorted(dir_set, key=..., reverse=False): shallow directories first
RECURSIVE SortedDirsAscending(_)
SortedDirsAscending(dir_set) ==
    IF dir_set = {} THEN <<>>
    ELSE LET first == CHOOSE d \in dir_set : \A e \in dir_set \ {d} : DirKeyLess(d, e)
         IN  <<first>> \o SortedDirsAscending(dir_set \ {first})

\* sorted(dir_set, key=..., reverse=True)
RECURSIVE SortedDirs(_)
SortedDirs(dir_set) ==
    IF dir_set = {} THEN <<>>
    ELSE LET first == CHOOSE d \in dir_set : \A e \in dir_set \ {d} : DirKeyLess(e, d)
         IN  <<first>> \o SortedDirs(dir_set \ {first})

\* the directories above the rewritten blobs: dirname taken until it is empty
DirSet(paths) == UNION {{SubSeq(p, 1, n) : n \in 1..(Len(p) - 1)} : p \in paths}

\* the loop of _write_tree over dirs from directory i on; new_blobs maps the
\* rewritten paths and the directories built so far to their new ids
RECURSIVE BuildDirs(_, _, _, _, _)
BuildDirs(files, version, dirs, i, new_blobs) ==
    IF i > Len(dirs) THEN new_blobs
    ELSE LET entries ==
                 {TreeListingEntry(entry.obj_type,
                                   IF entry.path \in DOMAIN new_blobs
                                   THEN new_blobs[entry.path] ELSE entry.oid,
                                   <<Basename(entry.path)>>) :
                     entry \in LsTree(files, version, dirs[i])}
         IN  BuildDirs(files, version, dirs, i + 1,
                       DictSet(new_blobs, dirs[i], TreeOid(entries)))

\* _write_tree(commit_info, blobs): the id it returns and the directories it
\* built, in order
WriteTree(files, version, rewritten) ==
    IF rewritten = {}
    THEN [result |-> GitTree(files, version, RootDir), built |-> <<>>]
    ELSE LET new_blobs == [b \in rewritten |-> BlobOid(b, 2)]
             dirs == Append(SortedDirs(DirSet(rewritten)), RootDir)
         IN  [result |-> BuildDirs(files, version, dirs, 1, new_blobs)[RootDir],
              built |-> dirs]

InitTree ==
    /\ amendments = <<>>
    /\ lastCall = NoCall
    /\ adjusted = NotAdjusted
    /\ coalescing = NotCoalescing
    /\ blobOutput = NotWritten
    /\ planCall = NoPlanCall
    /\ cli = NoCli
    /\ blameCall = NoBlame
    /\ reconciling = NotReconciling
    /\ \E files \in SUBSET FilePaths :
          \E rewritten \in SUBSET files :
              /\ files # {}
              /\ treeWrite = [NoTreeWrite EXCEPT !.pc = "called", !.files = files,
                                                 !.rewritten = rewritten]
    /\ commitWrite = NoCommitWrite
    /\ diffParse = NoDiffParse
    /\ lsTrees = NoTrees
    /\ IdleRepo
    /\ IdlePlan
    /\ IdleRebuild
    /\ IdleBackend

\* _process_rewrite_request calls _write_tree on the commit and its blobs
CallWriteTree ==
    /\ treeWrite.pc = "called"
    /\ LET out == WriteTree(treeWrite.files, [p \in treeWrite.files |-> 1],
                            treeWrite.rewritten)
       IN  treeWrite' = [treeWrite EXCEPT !.pc = "returned", !.result = out.result,
                                          !.built = out.built]
    /\ UNCHANGED <<amendments, lastCall, adjusted, coalescing, blobOutput, planCall, cli, blameCall, reconciling>>
    /\ UNCHANGED <<commitWrite, diffParse, lsTrees, repoVars, planVars, rebuildVars, nextHandle, backendVars>>

NextTree == CallWriteTree

SpecTree == InitTree /\ [][NextTree]_vars

\* the directories that hold a rewritten blob, at any depth
HoldsRewritten(subdir) == \E p \in treeWrite.rewritten : IsInside(p, subdir)

\* C28: with no rewritten blob _write_tree returns the tree of the original
\* commit and builds nothing; otherwise every directory that holds a
\* rewritten blob is built once, after every such directory inside it, the
\* root last, and the result is the tree of the commit with the new blobs
\* in place of the old ones.
C28_TreesBuiltBottomUp ==
    treeWrite.pc = "returned" =>
        LET version == [p \in treeWrite.files |->
                           IF p \in treeWrite.rewritten THEN 2 ELSE 1]
            built == treeWrite.built
        IN  /\ treeWrite.result = GitTree(treeWrite.files, version, RootDir)
            /\ treeWrite.rewritten = {} =>
                  /\ built = <<>>
                  /\ treeWrite.result
                        = GitTree(treeWrite.files, [p \in treeWrite.files |-> 1], RootDir)
            /\ treeWrite.rewritten # {} =>
                  /\ built[Len(built)] = RootDir
                  /\ \A i, j \in 1..Len(built) : i # j => built[i] # built[j]
                  /\ \A p \in treeWrite.rewritten : \A n \in 1..(Len(p) - 1) :
                        \E i \in 1..Len(built) : built[i] = SubSeq(p, 1, n)
                  /\ \A i \in 1..Len(built) : HoldsRewritten(built[i])
                  /\ \A i, j \in 1..Len(built) :
                        (built[i] # built[j] /\ IsInside(built[i], built[j])) => i < j

\* blobs two levels down and in a sibling directory were rewritten
C28_Witness ==
    /\ treeWrite.pc = "returned"
    /\ <<"a", "b", "f">> \in treeWrite.rewritten
    /\ <<"c", "f">> \in treeWrite.rewritten
    /\ <<"a", "g">> \in treeWrite.files \ treeWrite.rewritten
    /\ treeWrite.built = <<<<"a", "b">>, <<"c">>, <<"a">>, RootDir>>

(***************************************************************************)
(* GitBackendWorker._write_commit (apply_rewrite.py) and git commit-tree.  *)
(* A signature is a name, an email and a date.  The environment of the run *)
(* carries the committer git resolves for a new commit (GIT_COMMITTER_* or *)
(* the configured user and the current time).                              *)
(***************************************************************************)
Names == {"ann", "bob"}

Emails == {"ann@example.org", "bob@example.org"}

Dates == {1, 2}

Signatures == [name : Names, email : Emails, date : Dates]

Messages == {"fix", "feature"}

\* the lists of resolved parents: none, one, or two in either order
ResolvedParentLists == {<<>>} \cup {<<p>> : p \in 1..2} \cup {<<p, q>> : p, q \in 1..2}

\* -p parent for each new parent, in the order of new_parents
RECURSIVE ParentArgs(_, _)
ParentArgs(new_parents, i) ==
    IF i > Len(new_parents) THEN <<>>
    ELSE <<"-p", new_parents[i]>> \o ParentArgs(new_parents, i + 1)

\* the parents git reads from the arguments that follow the tree
RECURSIVE ParentsOfArgs(_, _)
ParentsOfArgs(args, i) ==
    IF i > Len(args) THEN <<>>
    ELSE <<args[i + 1]>> \o ParentsOfArgs(args, i + 2)

\* _setup_env: os.environ updated with the env of the call; _write_commit
\* gives GIT_AUTHOR_NAME, GIT_AUTHOR_EMAIL and GIT_AUTHOR_DATE only
SetupEnv(environ, commit_info) ==
    [author |-> [name |-> commit_info.a.name, email |-> commit_info.a.email,
                 date |-> commit_info.a.date],
     committer |-> environ]

\* git commit-tree tree -p ... with the message on standard input
CommitTree(tree, parent_args, input, env) ==
    [tree |-> tree, parents |-> ParentsOfArgs(parent_args, 1), message |-> input,
     author |-> env.author, committer |-> env.committer]

InitCommit ==
    /\ amendments = <<>>
    /\ lastCall = NoCall
    /\ adjusted = NotAdjusted
    /\ coalescing = NotCoalescing
    /\ blobOutput = NotWritten
    /\ planCall = NoPlanCall
    /\ cli = NoCli
    /\ blameCall = NoBlame
    /\ reconciling = NotReconciling
    /\ treeWrite = NoTreeWrite
    /\ \E a \in Signatures, c \in Signatures, e \in Signatures :
          \E message \in Messages, tree \in 1..2, new_parents \in ResolvedParentLists :
              commitWrite = [NoCommitWrite EXCEPT
                                !.pc = "called",
                                !.commit_info = [a |-> a, c |-> c, message |-> message],
                                !.environ = e, !.tree = tree,
                                !.new_parents = new_parents]
    /\ diffParse = NoDiffParse
    /\ lsTrees = NoTrees
    /\ IdleRepo
    /\ IdlePlan
    /\ IdleRebuild
    /\ IdleBackend

\* _process_rewrite_request calls _write_commit with the commit, the new tree
\* and the resolved parents
CallWriteCommit ==
    /\ commitWrite.pc = "called"
    /\ LET parent_args == ParentArgs(commitWrite.new_parents, 1)
           env == SetupEnv(commitWrite.environ, commitWrite.commit_info)
       IN  commitWrite' =
               [commitWrite EXCEPT
                   !.pc = "returned",
                   !.invocation = [tree |-> commitWrite.tree,
                                   parents |-> ParentsOfArgs(parent_args, 1),
                                   input |-> commitWrite.commit_info.message,
                                   author |-> env.author, committer |-> env.committer],
                   !.written = CommitTree(commitWrite.tree, parent_args,
                                          commitWrite.commit_info.message, env)]
    /\ UNCHANGED <<amendments, lastCall, adjusted, coalescing, blobOutput, planCall, cli, blameCall, reconciling, treeWrite>>
    /\ UNCHANGED <<diffParse, lsTrees, repoVars, planVars, rebuildVars, nextHandle, backendVars>>

NextCommit == CallWriteCommit

SpecCommit == InitCommit /\ [][NextCommit]_vars

\* C29: the commit written by _write_commit has the new tree, the resolved
\* parents in their order, the message of the original commit, and the
\* author and the committer (name, email and date) of the original commit.
C29_Original_AuthorAndCommitterPreserved ==
    commitWrite.pc = "returned" =>
        /\ commitWrite.written.tree = commitWrite.tree
        /\ commitWrite.written.parents = commitWrite.new_parents
        /\ commitWrite.written.message = commitWrite.commit_info.message
        /\ commitWrite.written.author = commitWrite.commit_info.a
        /\ commitWrite.written.committer = commitWrite.commit_info.c

(***************************************************************************)
(* DiffParser (diff_parser.py).  The lines of a diff are literal lines of  *)
(* git's patch output; each pattern is the set of the lines it matches.    *)
(***************************************************************************)
\* the most lines read of one diff
MaxDiffLines == 5

\* the lines a diff is made of
DiffLines ==
    {"diff --git a/f b/f", "index 1..2 100644", "--- a/f", "--- /dev/null", "+++ b/f",
     "@@ -1 +1 @@", "Binary files a/f and b/f differ", "+x", ""}

DIFF_HEADER(line) == line = "diff --git a/f b/f"

DIFF_FSTAT(line) == line \in {"index 1..2 100644", "new file mode 100644"}

DIFF_MODE(line) == line \in {"old mode 100644", "new mode 100755"}

DIFF_OLD(line) == line \in {"--- a/f", "--- /dev/null"}

DIFF_NEW(line) == line \in {"+++ b/f", "+++ /dev/null"}

HUNK_REGEX(line) == line = "@@ -1 +1 @@"

DIFF_BINARY(line) == line = "Binary files a/f and b/f differ"

\* the file a --- or +++ line names: None for /dev/null, else group fname
MatchedFile(line) == IF line \in {"--- /dev/null", "+++ /dev/null"} THEN "None" ELSE "f"

\* line[:1] and line[1:]
LineStart(line) ==
    CASE line \in {"--- a/f", "--- /dev/null"} -> "-"
      [] line \in {"+++ b/f", "+x"} -> "+"
      [] line = "@@ -1 +1 @@" -> "@"
      [] line = "diff --git a/f b/f" -> "d"
      [] line = "index 1..2 100644" -> "i"
      [] line = "Binary files a/f and b/f differ" -> "B"
      [] line = "\\ No newline at end of file" -> "\\"
      [] line = "-x" -> "-"
      [] line = " x" -> " "
      [] OTHER -> ""

LineRemainder(line) ==
    CASE line = "--- a/f" -> "-- a/f"
      [] line = "--- /dev/null" -> "-- /dev/null"
      [] line = "+++ b/f" -> "++ b/f"
      [] line = "+x" -> "x"
      [] line = "-x" -> "x"
      [] line = " x" -> "x"
      [] OTHER -> "rest"

\* DiffLineType(start), ValueError for any other character
DiffLineTypeOf(start) ==
    CASE start = "+" -> "Add" [] start = "-" -> "Remove" [] start = " " -> "Context"
      [] OTHER -> "ValueError"

DiffParseResult(state, attrs, yield) == [state |-> state, attrs |-> attrs, hunk |-> yield]

DIFF_PARSE_INITIAL == DiffParseResult("Initial", NoDiffAttrs, <<>>)

DIFF_PARSE_INVALID == DiffParseResult("Invalid", NoDiffAttrs, <<>>)

ForDiffHeader == DiffParseResult("DiffHeader", NoDiffAttrs, <<>>)

\* Hunk(**attrs): the hunk, or ValueError when a side is missing and the ops
\* touch it
HunkOf(attrs) ==
    IF \/ attrs.old_file = "None" /\ \E i \in 1..Len(attrs.ops) : attrs.ops[i][1] # "Add"
       \/ attrs.new_file = "None" /\ \E i \in 1..Len(attrs.ops) : attrs.ops[i][1] # "Remove"
    THEN <<[raises |-> "ValueError", old_file |-> attrs.old_file,
            new_file |-> attrs.new_file, old_start |-> attrs.old_start,
            new_start |-> attrs.new_start, ops |-> attrs.ops]>>
    ELSE <<[raises |-> "none", old_file |-> attrs.old_file, new_file |-> attrs.new_file,
            old_start |-> attrs.old_start, new_start |-> attrs.new_start,
            ops |-> attrs.ops]>>

HandleDiffHunkStart(line, attrs) ==
    DiffParseResult("InHunk",
                    [NoDiffAttrs EXCEPT !.old_file = attrs.old_file,
                                        !.new_file = attrs.new_file,
                                        !.old_start = 1, !.new_start = 1],
                    <<>>)

HandleInitial(attrs, line) ==
    IF ~DIFF_HEADER(line) THEN DIFF_PARSE_INITIAL ELSE ForDiffHeader

\* the test of a hunk start in the header with one of the two flags only
BothFilesSeenEither(attrs) == attrs.old_file_seen \/ attrs.new_file_seen

\* attrs.old_file_seen and attrs.new_file_seen
BothFilesSeen(attrs) == attrs.old_file_seen /\ attrs.new_file_seen

HandleDiffHeader(attrs, line) ==
    IF DIFF_FSTAT(line) \/ DIFF_MODE(line) THEN DiffParseResult("DiffHeader", attrs, <<>>)
    ELSE IF DIFF_HEADER(line) \/ DIFF_BINARY(line) THEN ForDiffHeader
    ELSE IF DIFF_OLD(line)
    THEN IF attrs.old_file # "None" THEN DIFF_PARSE_INVALID
         ELSE DiffParseResult("DiffHeader",
                              [attrs EXCEPT !.old_file = MatchedFile(line),
                                            !.old_file_seen = TRUE],
                              <<>>)
    ELSE IF DIFF_NEW(line)
    THEN IF attrs.new_file # "None" THEN DIFF_PARSE_INVALID
         ELSE DiffParseResult("DiffHeader",
                              [attrs EXCEPT !.new_file = MatchedFile(line),
                                            !.new_file_seen = TRUE],
                              <<>>)
    ELSE IF HUNK_REGEX(line)
    THEN IF ~BothFilesSeen(attrs) THEN DIFF_PARSE_INVALID
         ELSE HandleDiffHunkStart(line, attrs)
    ELSE DIFF_PARSE_INVALID

\* the test of the last op with every line taken to end in a newline
EndsWithNewlineAlways(op) == TRUE

\* last_line.endswith(b'\n') of an op (type, line, whether the newline is kept)
EndsWithNewline(op) == op[3]

HandleInHunk(attrs, line) ==
    IF DIFF_HEADER(line) THEN [ForDiffHeader EXCEPT !.hunk = HunkOf(attrs)]
    ELSE IF HUNK_REGEX(line)
    THEN [HandleDiffHunkStart(line, attrs) EXCEPT !.hunk = HunkOf(attrs)]
    ELSE IF line = "" THEN DiffParseResult("InHunk", attrs, <<>>)
    ELSE IF LineStart(line) = "\\"
    THEN IF attrs.ops = <<>> THEN DIFF_PARSE_INVALID
         ELSE IF ~EndsWithNewline(attrs.ops[Len(attrs.ops)]) THEN DIFF_PARSE_INVALID
         ELSE DiffParseResult("InHunk",
                              [attrs EXCEPT !.ops[Len(attrs.ops)][3] = FALSE], <<>>)
    ELSE IF DiffLineTypeOf(LineStart(line)) = "ValueError" THEN DIFF_PARSE_INVALID
    ELSE DiffParseResult("InHunk",
                         [attrs EXCEPT !.ops = Append(attrs.ops,
                                                      <<DiffLineTypeOf(LineStart(line)),
                                                        LineRemainder(line), TRUE>>)],
                         <<>>)

\* handle_line_parsing: the handler registered for the state
HandleLineParsing(state, attrs, line) ==
    CASE state = "Initial" -> HandleInitial(attrs, line)
      [] state = "DiffHeader" -> HandleDiffHeader(attrs, line)
      [] state = "InHunk" -> HandleInHunk(attrs, line)

InitDiffParse ==
    /\ amendments = <<>>
    /\ lastCall = NoCall
    /\ adjusted = NotAdjusted
    /\ coalescing = NotCoalescing
    /\ blobOutput = NotWritten
    /\ planCall = NoPlanCall
    /\ cli = NoCli
    /\ blameCall = NoBlame
    /\ reconciling = NotReconciling
    /\ treeWrite = NoTreeWrite
    /\ commitWrite = NoCommitWrite
    /\ diffParse = [NoDiffParse EXCEPT !.pc = "reading"]
    /\ lsTrees = NoTrees
    /\ IdleRepo
    /\ IdlePlan
    /\ IdleRebuild
    /\ IdleBackend

\* one turn of the loop of parse_diff_hunks, the next line one of next_lines
ReadLine(limit, next_lines) ==
    /\ diffParse.pc = "reading"
    /\ Len(diffParse.lines) < limit
    /\ \E line \in next_lines :
          LET line_index == Len(diffParse.lines)
              res == HandleLineParsing(diffParse.state, diffParse.attrs, line)
              hunk_raises == res.hunk # <<>> /\ res.hunk[1].raises # "none"
          IN  diffParse' =
                  IF hunk_raises
                  THEN [diffParse EXCEPT !.pc = "raised",
                                         !.lines = Append(diffParse.lines, line),
                                         !.raised = [message |-> "ValueError", line |-> 0]]
                  ELSE IF res.state = "Invalid"
                  THEN [diffParse EXCEPT
                           !.pc = "raised", !.lines = Append(diffParse.lines, line),
                           !.state = "Invalid",
                           !.raised = [message |-> "unexpected diff content at line",
                                       line |-> line_index + 1]]
                  ELSE [diffParse EXCEPT !.lines = Append(diffParse.lines, line),
                                         !.state = res.state, !.attrs = res.attrs,
                                         !.yielded = diffParse.yielded \o res.hunk]
    /\ UNCHANGED <<amendments, lastCall, adjusted, coalescing, blobOutput, planCall, cli, blameCall, reconciling, treeWrite, commitWrite>>
    /\ UNCHANGED <<lsTrees, repoVars, planVars, rebuildVars, nextHandle, backendVars>>

\* one turn of the loop over the lines of a diff read from its first line
ReadDiffLine == ReadLine(MaxDiffLines, DiffLines)

\* any(lines) of no line at all
AnyLineNever(lines) == FALSE

\* any(lines): some line is not empty
AnyLine(lines) == \E i \in 1..Len(lines) : lines[i] # ""

\* the lines are exhausted: the checks after the loop and the last hunk
EndOfDiff ==
    /\ diffParse.pc = "reading"
    /\ Len(diffParse.lines) >= 1
    /\ diffParse' =
          IF diffParse.state = "DiffHeader"
          THEN [diffParse EXCEPT !.pc = "raised",
                                 !.raised = [message |-> "unexpected end of diff", line |-> 0]]
          ELSE IF diffParse.state = "Initial" /\ AnyLine(diffParse.lines)
          THEN [diffParse EXCEPT !.pc = "raised",
                                 !.raised = [message |-> "unable to locate diff content",
                                             line |-> 0]]
          ELSE IF diffParse.state = "InHunk"
          THEN IF HunkOf(diffParse.attrs)[1].raises # "none"
               THEN [diffParse EXCEPT !.pc = "raised",
                                      !.raised = [message |-> "ValueError", line |-> 0]]
               ELSE [diffParse EXCEPT !.pc = "done",
                                      !.yielded = diffParse.yielded \o HunkOf(diffParse.attrs)]
          ELSE [diffParse EXCEPT !.pc = "done"]
    /\ UNCHANGED <<amendments, lastCall, adjusted, coalescing, blobOutput, planCall, cli, blameCall, reconciling, treeWrite, commitWrite>>
    /\ UNCHANGED <<lsTrees, repoVars, planVars, rebuildVars, nextHandle, backendVars>>

NextDiffParse == ReadDiffLine \/ EndOfDiff

SpecDiffParse == InitDiffParse /\ [][NextDiffParse]_vars

\* the index of the last `diff --git` line among the lines, 0 if there is none
LastDiffHeader(lines) ==
    IF \E i \in 1..Len(lines) : DIFF_HEADER(lines[i])
    THEN CHOOSE i \in 1..Len(lines) :
             DIFF_HEADER(lines[i]) /\ \A j \in (i + 1)..Len(lines) : ~DIFF_HEADER(lines[j])
    ELSE 0

\* a --- line and a +++ line were read since the last `diff --git` line
OldAndNewSeenSinceHeader(lines) ==
    /\ \E i \in (LastDiffHeader(lines) + 1)..Len(lines) : DIFF_OLD(lines[i])
    /\ \E i \in (LastDiffHeader(lines) + 1)..Len(lines) : DIFF_NEW(lines[i])

\* the forms of line the header state accepts
AcceptedHeaderForm(line) ==
    \/ DIFF_FSTAT(line) \/ DIFF_MODE(line) \/ DIFF_HEADER(line) \/ DIFF_BINARY(line)
    \/ DIFF_OLD(line) \/ DIFF_NEW(line) \/ HUNK_REGEX(line)

\* the parse failed on the line just read, numbered from 1
FailsAtLineRead ==
    /\ diffParse'.pc = "raised"
    /\ diffParse'.raised = [message |-> "unexpected diff content at line",
                            line |-> Len(diffParse'.lines)]

\* C30: a hunk-start line read in the DiffHeader state moves the parser to
\* InHunk only if a --- line and a +++ line were read since the last
\* `diff --git` line, and fails with 'unexpected diff content at line L',
\* L the 1-based number of the line, when they were not; a line of none of
\* the accepted forms fails the same way at its own number.
C30_HunkStartNeedsOldAndNew ==
    [][(/\ diffParse.pc = "reading"
        /\ diffParse.state = "DiffHeader"
        /\ Len(diffParse'.lines) = Len(diffParse.lines) + 1)
       => LET line == diffParse'.lines[Len(diffParse'.lines)]
          IN  /\ HUNK_REGEX(line) =>
                    /\ diffParse'.state = "InHunk" \/ FailsAtLineRead
                    /\ diffParse'.state = "InHunk" =>
                          OldAndNewSeenSinceHeader(diffParse.lines)
                    /\ ~OldAndNewSeenSinceHeader(diffParse.lines) => FailsAtLineRead
              /\ ~AcceptedHeaderForm(line) => FailsAtLineRead]_vars

\* a hunk start after a second `diff --git` line that no --- and +++ line
\* follows fails at line 5
C30_Witness ==
    /\ diffParse.lines
          = <<"diff --git a/f b/f", "--- a/f", "+++ b/f", "diff --git a/f b/f", "@@ -1 +1 @@">>
    /\ diffParse.pc = "raised"
    /\ diffParse.raised = [message |-> "unexpected diff content at line", line |-> 5]

\* a --- line (a +++ line) was read since the last `diff --git` line
OldSeenSinceHeader(lines) ==
    \E i \in (LastDiffHeader(lines) + 1)..Len(lines) : DIFF_OLD(lines[i])

NewSeenSinceHeader(lines) ==
    \E i \in (LastDiffHeader(lines) + 1)..Len(lines) : DIFF_NEW(lines[i])

\* C31: a second --- line or a second +++ line within one file header, with
\* no `diff --git` line between the two, fails with 'unexpected diff content'
\* at the duplicate line, whatever the form of either line (/dev/null
\* included).
C31_Original_DuplicateFileLineRejected ==
    [][(/\ diffParse.pc = "reading"
        /\ diffParse.state = "DiffHeader"
        /\ Len(diffParse'.lines) = Len(diffParse.lines) + 1)
       => LET line == diffParse'.lines[Len(diffParse'.lines)]
          IN  /\ (DIFF_OLD(line) /\ OldSeenSinceHeader(diffParse.lines)) => FailsAtLineRead
              /\ (DIFF_NEW(line) /\ NewSeenSinceHeader(diffParse.lines)) => FailsAtLineRead]_vars

\* the loop of parse_diff_hunks is left: no line is read and the parse ends
DiffEnds ==
    /\ diffParse.pc = "reading"
    /\ diffParse'.pc # "reading"
    /\ diffParse'.lines = diffParse.lines

\* C32: at the end of the input the parse succeeds only from Initial with
\* nothing but empty lines, yielding no hunk, or from InHunk, the hunk in
\* progress yielded last; an end in DiffHeader fails with 'unexpected end of
\* diff' and an end in Initial after a non-empty line fails with 'unable to
\* locate diff content'.
C32_EndOfInput ==
    [][DiffEnds =>
          /\ diffParse'.pc = "done" =>
                \/ /\ diffParse.state = "Initial"
                   /\ \A i \in 1..Len(diffParse.lines) : diffParse.lines[i] = ""
                   /\ diffParse'.yielded = <<>>
                \/ /\ diffParse.state = "InHunk"
                   /\ diffParse'.yielded = diffParse.yielded \o HunkOf(diffParse.attrs)
          /\ diffParse.state = "DiffHeader" =>
                /\ diffParse'.pc = "raised"
                /\ diffParse'.raised.message = "unexpected end of diff"
          /\ (/\ diffParse.state = "Initial"
              /\ \E i \in 1..Len(diffParse.lines) : diffParse.lines[i] # "") =>
                /\ diffParse'.pc = "raised"
                /\ diffParse'.raised.message = "unable to locate diff content"]_vars

\* a diff of an empty line and a line that is no `diff --git` line ended
C32_Witness ==
    /\ diffParse.lines = <<"", "index 1..2 100644">>
    /\ diffParse.pc = "raised"
    /\ diffParse.raised.message = "unable to locate diff content"

(***************************************************************************)
(* The parser inside a hunk: the diff starts with a file header and a hunk *)
(* start, and the lines that follow are those of a hunk.                   *)
(***************************************************************************)
\* the most lines read after the hunk start
MaxHunkLines == 4

\* the `\ No newline at end of file` line
NoNewlineMarker == "\\ No newline at end of file"

\* the lines that follow a hunk start
HunkLines ==
    {"+x", "-x", " x", "", NoNewlineMarker, "@@ -1 +1 @@", "diff --git a/f b/f",
     "index 1..2 100644"}

\* a file header and a hunk start, of a changed file and of a new file
HunkPrefixes ==
    {<<"diff --git a/f b/f", "--- a/f", "+++ b/f", "@@ -1 +1 @@">>,
     <<"diff --git a/f b/f", "--- /dev/null", "+++ b/f", "@@ -1 +1 @@">>}

\* the number of lines of such a prefix
HunkPrefixLen == Len(CHOOSE prefix \in HunkPrefixes : TRUE)

\* the result of the loop of parse_diff_hunks over the first n lines
RECURSIVE ParsedUpTo(_, _)
ParsedUpTo(lines, n) ==
    IF n = 0 THEN DIFF_PARSE_INITIAL
    ELSE LET res == ParsedUpTo(lines, n - 1)
         IN  HandleLineParsing(res.state, res.attrs, lines[n])

InitHunkParse ==
    /\ amendments = <<>>
    /\ lastCall = NoCall
    /\ adjusted = NotAdjusted
    /\ coalescing = NotCoalescing
    /\ blobOutput = NotWritten
    /\ planCall = NoPlanCall
    /\ cli = NoCli
    /\ blameCall = NoBlame
    /\ reconciling = NotReconciling
    /\ treeWrite = NoTreeWrite
    /\ commitWrite = NoCommitWrite
    /\ \E prefix \in HunkPrefixes :
          diffParse = [NoDiffParse EXCEPT
                          !.pc = "reading", !.lines = prefix,
                          !.state = ParsedUpTo(prefix, Len(prefix)).state,
                          !.attrs = ParsedUpTo(prefix, Len(prefix)).attrs]
    /\ lsTrees = NoTrees
    /\ IdleRepo
    /\ IdlePlan
    /\ IdleRebuild
    /\ IdleBackend

\* one turn of the loop over the lines that follow the hunk start
ReadHunkLine == ReadLine(HunkPrefixLen + MaxHunkLines, HunkLines)

NextHunkParse == ReadHunkLine \/ EndOfDiff

SpecHunkParse == InitHunkParse /\ [][NextHunkParse]_vars

\* C33: a `\ No newline at end of file` line read in the InHunk state takes
\* the trailing newline from the last op of the hunk and leaves every other
\* op as it was; it fails at that line when the hunk has no op yet or when
\* the last op has no trailing newline (the marker twice in a row).
C33_NoNewlineMarker ==
    [][(/\ diffParse.pc = "reading"
        /\ diffParse.state = "InHunk"
        /\ Len(diffParse'.lines) = Len(diffParse.lines) + 1
        /\ diffParse'.lines[Len(diffParse'.lines)] = NoNewlineMarker)
       => LET ops == diffParse.attrs.ops
          IN  IF ops = <<>> \/ ~ops[Len(ops)][3]
              THEN FailsAtLineRead
              ELSE /\ diffParse'.pc = "reading"
                   /\ diffParse'.state = "InHunk"
                   /\ Len(diffParse'.attrs.ops) = Len(ops)
                   /\ \A i \in 1..(Len(ops) - 1) : diffParse'.attrs.ops[i] = ops[i]
                   /\ diffParse'.attrs.ops[Len(ops)]
                         = <<ops[Len(ops)][1], ops[Len(ops)][2], FALSE>>
                   /\ diffParse'.yielded = diffParse.yielded]_vars

\* the marker after the second of two lines of a hunk
C33_Witness ==
    /\ diffParse.pc = "reading"
    /\ Len(diffParse.lines) = HunkPrefixLen + 3
    /\ diffParse.lines[HunkPrefixLen + 3] = NoNewlineMarker
    /\ diffParse.attrs.ops = <<<<"Remove", "x", TRUE>>, <<"Add", "x", FALSE>>>>

BlameOutput == PorcelainLines(blameCall.attr, blameCall.boundary, blameCall.shift, 1)

\* the header of the line carries the count that starts a group
HeaderHasCount(line) ==
    \E i \in 1..Len(BlameOutput) :
        /\ BlameOutput[i].kind = "header"
        /\ BlameOutput[i].new_line = line
        /\ BlameOutput[i].has_count

\* C35: two entries of the attribution are in one pair of the output only
\* if they and every entry between them are retained, have the same source
\* hash and filename, lie as far from each other in the source as in the
\* target, and no header after the first carries the starts_seq count;
\* entries of different source hashes are never in one pair, also when the
\* entries between them were dropped.
C35_MergedOnlyWithinOneGroup ==
    blameCall.pc = "returned" =>
        \A l, m \in 1..Len(blameCall.attr) :
            (l < m /\ PairsOfLine(l) \cap PairsOfLine(m) # {}) =>
                /\ blameCall.attr[l] = blameCall.attr[m]
                /\ \A j \in l..m : Retained(j) /\ blameCall.attr[j] = blameCall.attr[l]
                /\ OldLine(blameCall.attr[m], m, blameCall.shift)
                       - OldLine(blameCall.attr[l], l, blameCall.shift) = m - l
                /\ \A j \in (l + 1)..m : ~HeaderHasCount(j)
                /\ \A k \in PairsOfLine(l) :
                      /\ blameCall.range_mapping[k][1].rev = Hash(blameCall.attr[l])
                      /\ blameCall.range_mapping[k][1].file = "f"

\* two lines of one commit were merged and the line of another commit that
\* follows them, contiguous in source and target, was not
C35_Witness ==
    /\ blameCall.pc = "returned"
    /\ blameCall.attr = <<2, 2, 3>>
    /\ blameCall.shift = 0
    /\ Len(blameCall.range_mapping) = 2
    /\ blameCall.range_mapping[1][1].extent = 2
    /\ blameCall.range_mapping[2][1].rev = Hash(3)

\* C36: the ordering reverse_topo_ordering(head) returns lists every commit
\* of the partial graph reachable from head exactly once, so the rebuilder
\* submits one rewrite request per original commit.
C36_Original_EveryCommitOnce ==
    /\ \A i, j \in 1..Len(rewriteOrder) : i # j => rewriteOrder[i] # rewriteOrder[j]
    /\ (head \in DOMAIN commitGraph /\ rewriteOrder # <<>>) =>
          SeqRange(rewriteOrder) = {head} \cup KnownAncestors(head)
    /\ \A i, j \in 1..Len(submitted) :
          i # j => submitted[i].commit_oid # submitted[j].commit_oid

\* the diff reconciliation is at an entry of the diff-tree against a parent
\* that carries no amended blob for the needed path the entry names
AtEntryOfUnamendedParent ==
    /\ reconciling.pc = "diff"
    /\ reconciling.parent <= Len(reconciling.parents)
    /\ LET old_parent_oid == reconciling.parents[reconciling.parent]
           entries == reconciling.diff_trees[old_parent_oid]
       IN  /\ reconciling.entry <= Len(entries)
           /\ entries[reconciling.entry].old_path \in reconciling.need_full_reconcile
           /\ entries[reconciling.entry].new_path # None
           /\ ParentChanges(reconciling.parent_amendments[entries[reconciling.entry].old_path],
                            old_parent_oid, 1) = NoBlob

\* C37: in the diff reconciliation of a merge commit, a parent that carries
\* no amended blob for a needed path contributes nothing for the path and
\* raises no error, also when the diff-tree between the parent and the
\* commit has an entry for the path.
C37_Original_UnamendedParentSkipped ==
    [][(AtEntryOfUnamendedParent /\ reconciling'.entry = reconciling.entry + 1)
       => /\ reconciling'.pc = "diff"
          /\ reconciling'.partially_coalesced = reconciling.partially_coalesced
          /\ reconciling'.handled = reconciling.handled]_vars

\* the commit renames f to g, amends g itself, and its one parent was
\* rewritten with amendments on f
RenamedWithOwnAmendments ==
    /\ reconciling.parents = <<1>>
    /\ DOMAIN reconciling.new_amendments = {"g"}
    /\ DOMAIN reconciling.parent_amendments = {"f"}
    /\ DOMAIN reconciling.child_blob_oids = {"g"}
    /\ \E i \in 1..Len(reconciling.diff_trees[1]) :
          /\ reconciling.diff_trees[1][i].old_path = "f"
          /\ reconciling.diff_trees[1][i].new_path = "g"

\* C38: the coalesced set holds one amended blob per path; when the commit
\* renames f to g, amends g itself and a rewritten parent amended f, neither
\* assertion of the diff reconciliation fails, and on return the one entry
\* for g holds the amendments of the commit and those of the parent.
C38_Original_RenameWithOwnAmendments ==
    (RenamedWithOwnAmendments /\ reconciling.pc \in {"returned", "raised"}) =>
        /\ reconciling.result # "AssertionError: coalesced and partially_coalesced"
        /\ reconciling.result # "AssertionError: handled == needed_paths"
        /\ reconciling.result = "ok" =>
              /\ DOMAIN reconciling.coalesced = {"g"}
              /\ Len(reconciling.coalesced["g"].amendments) = 2

(***************************************************************************)
(* C39 as stated: resolve_handle(h) on a commit handle whose task has      *)
(* already completed returns the OID of that commit whenever it is called, *)
(* also after join() has returned successfully: the orderly shutdown of    *)
(* join() does not turn a later resolution of a finished handle into an    *)
(* error.                                                                  *)
(***************************************************************************)
ResolvingFinishedAfterJoin ==
    /\ client.pc = "resolve_handle"
    /\ client.joined
    /\ client.target \in DOMAIN commitRewrites
    /\ commitRewrites[client.target].task = "done"
    /\ CommitObject(client.target) \in objects

C39_Original_FinishedHandleResolvesAfterJoin ==
    [][(ResolvingFinishedAfterJoin /\ client' # client) =>
          (client'.pc = "ready" /\ client'.error = "none")]_vars

(***************************************************************************)
(* AmendedBranchBuilder.apply (amend.py) with the amended blobs in full:   *)
(* _start_commit_rewrite runs _coalesce_amended_blobs, diff reconciliation *)
(* included, on the blobs rewrite_commit returned for the parents, over    *)
(* the paths "f" and "g", and hands the result to rewrite_commit.          *)
(***************************************************************************)
\* The slice rewritten is HEAD with its ancestors, numbered from 1 and at most
\* MaxRequests commits; the commits outside of it have no part in the run.
\* the trees of the commits: the OID of the blob at each path the tree holds
ApplyTrees == DictsOver(Paths, [p \in Paths |-> 1..2])

\* AmendmentPlan._amendments: each commit of roots amends line 3 of some paths
ApplyPlans(roots) ==
    {[c \in roots |-> [p \in paths[c] |-> <<AmendmentRecord(3, 1, <<>>)>>]] :
        paths \in [roots -> (SUBSET Paths) \ {{}}]}

\* parent_amendments of _get_parent_amendments as a dict over the paths, the
\* blobs of a path in the order of the parents
ParentAmendmentsByPath(parent_blobs) ==
    [path \in {parent_blobs[i].blob.file : i \in 1..Len(parent_blobs)} |->
        SelectSeq(parent_blobs, LAMBDA e : e.blob.file = path)]

\* list(coalesced.values()), the paths taken in the order "f", "g"
DictValues(dict) ==
    (IF "f" \in DOMAIN dict THEN <<dict["f"]>> ELSE <<>>)
    \o (IF "g" \in DOMAIN dict THEN <<dict["g"]>> ELSE <<>>)

InitApply ==
    /\ IdleBlob
    /\ repo \in AllRepos
    /\ head \in Commits \cap (1..MaxRequests)
    /\ \A c \in Commits \ AncestorsOrSelf(repo, head) : repo[c] = <<>>
    /\ \E roots \in SUBSET AncestorsOrSelf(repo, head) :
          /\ roots # {}
          /\ plan \in ApplyPlans(roots)
    /\ hunk = NoHunk
    /\ driver = [pc |-> "write_commits", edit |-> 1, result |-> NoResult]
    /\ lastEdit = NoEdit
    /\ blameQueries = 0
    /\ writeCommits = [status |-> "rewriting", oid |-> 0]
    /\ commitGraph = EmptyGraph
    /\ rewriteOrder = <<>>
    /\ builder = [NotBuilding EXCEPT !.pc = "write"]
    /\ amendedCommits = NoRewrittenCommits
    /\ submitted = <<>>
    /\ IdleBackend

\* _start_commit_rewrite for the next commit of the ordering, up to the call
\* of _coalesce_amended_blobs: the parents' amended blobs are gathered; the
\* trees of the commit and of its parents are what git lists for them, the
\* same at every run; the blobs of the plan carry the OID of the commit's blob
StartCoalesce ==
    /\ builder.pc = "apply"
    /\ builder.pos <= Len(rewriteOrder)
    /\ reconciling.pc = "idle"
    /\ LET commit_oid == rewriteOrder[builder.pos]
           own == IF commit_oid \in DOMAIN plan THEN DOMAIN plan[commit_oid] ELSE {}
           parents == commitGraph[commit_oid]
           pa == GetParentAmendments(amendedCommits, parents, 1)
           unseen == ({commit_oid} \cup SeqRange(parents)) \ DOMAIN lsTrees
       IN  IF pa.new_parents = OidRefs(parents) /\ own = {}
           THEN /\ builder' = [builder EXCEPT !.pc = "raised", !.error = "AssertionError"]
                /\ UNCHANGED <<reconciling, lsTrees>>
           ELSE \E listed \in [unseen -> ApplyTrees], find_renames \in BOOLEAN,
                   blob_diff \in ReconcileDiffs :
                  LET ls_tree == [c \in (DOMAIN lsTrees) \cup unseen |->
                                     IF c \in unseen THEN listed[c] ELSE lsTrees[c]]
                  IN  /\ own \subseteq DOMAIN ls_tree[commit_oid]
                      /\ lsTrees' = ls_tree
                      /\ reconciling' =
                            [NotReconciling EXCEPT
                                !.pc = "called", !.commit_oid = commit_oid,
                                !.parents = parents,
                                !.new_amendments =
                                    [path \in own |->
                                        AmendedBlob(commit_oid, path,
                                                    ls_tree[commit_oid][path], 0,
                                                    plan[commit_oid][path])],
                                !.parent_amendments =
                                    ParentAmendmentsByPath(pa.parent_amendments),
                                !.child_blob_oids = ls_tree[commit_oid],
                                !.diff_trees =
                                    [p \in SeqRange(parents) |->
                                        DiffTree(ls_tree[p], ls_tree[commit_oid],
                                                 find_renames)],
                                !.blob_diff = blob_diff]
                      /\ UNCHANGED builder
    /\ UNCHANGED <<commitGraph, rewriteOrder, amendedCommits, submitted, nextHandle>>
    /\ UNCHANGED <<amendments, lastCall, adjusted, coalescing, blobOutput, planCall, cli, blameCall>>
    /\ UNCHANGED <<treeWrite, commitWrite, diffParse, repoVars, planVars, backendVars>>

\* _start_commit_rewrite after _coalesce_amended_blobs returned: rewrite_commit
\* is called with the coalesced blobs and its answer kept in amended_commits
SubmitCoalesced ==
    /\ builder.pc = "apply"
    /\ reconciling.pc = "returned"
    /\ LET commit_oid == reconciling.commit_oid
           pa == GetParentAmendments(amendedCommits, reconciling.parents, 1)
           rw == RequestCommitRewrite(nextHandle, commit_oid, pa.new_parents,
                                      DictValues(reconciling.coalesced))
       IN  /\ nextHandle' = rw.next_handle
           /\ submitted' = Append(submitted, rw.request)
           /\ amendedCommits' =
                 [c \in (DOMAIN amendedCommits) \cup {commit_oid} |->
                     IF c = commit_oid
                     THEN [commit_oid |-> commit_oid,
                           commit_handle |-> rw.request.commit_handle,
                           blobs |-> rw.request.blobs]
                     ELSE amendedCommits[c]]
           /\ builder' = [builder EXCEPT !.pos = @ + 1]
    /\ reconciling' = NotReconciling
    /\ UNCHANGED <<commitGraph, rewriteOrder, lsTrees>>
    /\ UNCHANGED <<amendments, lastCall, adjusted, coalescing, blobOutput, planCall, cli, blameCall>>
    /\ UNCHANGED <<treeWrite, commitWrite, diffParse, repoVars, planVars, backendVars>>

\* _coalesce_amended_blobs raised: the exception leaves apply()
CoalesceFails ==
    /\ builder.pc = "apply"
    /\ reconciling.pc = "raised"
    /\ builder' = [builder EXCEPT !.pc = "raised", !.error = reconciling.result]
    /\ UNCHANGED <<commitGraph, rewriteOrder, amendedCommits, submitted, nextHandle>>
    /\ UNCHANGED <<blobVars, repoVars, planVars, backendVars>>

\* apply() after its loop, once the last commit was submitted
ApplyReturnsHead ==
    /\ reconciling.pc = "idle"
    /\ ApplyReturns

NextApply ==
    \/ BuilderWrite
    \/ StartCoalesce
    \/ ReconcileStart
    \/ AccountEntry
    \/ AccountReturns
    \/ ReconcileFinish
    \/ SubmitCoalesced
    \/ CoalesceFails
    \/ ApplyReturnsHead

SpecApply == InitApply /\ [][NextApply]_vars

(***************************************************************************)
(* C40: in every reachable state, the amended blobs that carry the same    *)
(* blob rewrite handle have the same pre-rewrite blob OID, the same path   *)
(* and equal amendments lists: a handle is shared only where with_meta     *)
(* reuses the blob of a parent, a blob made by adjusted_by_diff or         *)
(* with_merged_amendments has no handle and is given a new one.  Every     *)
(* handle id issued differs from every other: no two requests have the     *)
(* same commit handle, no commit handle is a blob handle, and a blob       *)
(* handle a request holds was either held by a parent's blob or had not    *)
(* been issued before the request.                                         *)
(***************************************************************************)
SubmittedBlobs == UNION {SeqRange(submitted[i].blobs) : i \in 1..Len(submitted)}

HeldBefore(i) ==
    {submitted[j].commit_handle : j \in 1..(i - 1)}
      \cup UNION {{b.rewrite_data : b \in SeqRange(submitted[j].blobs)} : j \in 1..(i - 1)}

ParentHandles(request) ==
    {request.parents[k].id : k \in {n \in 1..Len(request.parents) :
                                       request.parents[n].kind = "handle"}}

\* the handles of the blobs held by the requests a request names as parents
ParentBlobHandles(i) ==
    UNION {{b.rewrite_data : b \in SeqRange(submitted[j].blobs)} :
              j \in {n \in 1..(i - 1) :
                        submitted[n].commit_handle \in ParentHandles(submitted[i])}}

C40_SharedHandleSameContent ==
    /\ \A a, b \in SubmittedBlobs :
          a.rewrite_data = b.rewrite_data =>
             /\ a.rewrite_data # 0
             /\ a.oid = b.oid
             /\ a.file = b.file
             /\ a.amendments = b.amendments
    /\ \A i \in 1..Len(submitted) :
          /\ submitted[i].commit_handle \notin HeldBefore(i)
          /\ \A k \in 1..Len(submitted[i].blobs) :
                LET handle == submitted[i].blobs[k].rewrite_data
                IN  /\ handle # submitted[i].commit_handle
                    /\ handle < nextHandle
                    /\ handle \in HeldBefore(i) => handle \in ParentBlobHandles(i)
                    /\ \A n \in 1..Len(submitted[i].blobs) :
                          n # k => submitted[i].blobs[n].rewrite_data # handle

\* two commits were submitted with blobs of one handle, the later one with a
\* second blob that was reconciled by a diff and given a handle of its own
C40_Witness ==
    \E i, j \in 1..Len(submitted) :
       /\ i < j
       /\ submitted[i].commit_oid # submitted[j].commit_oid
       /\ \E a \in SeqRange(submitted[i].blobs), b, c \in SeqRange(submitted[j].blobs) :
             /\ a.rewrite_data = b.rewrite_data
             /\ a.commit # b.commit
             /\ c.rewrite_data \notin HeldBefore(j)
             /\ c.amendments # <<AmendmentRecord(3, 1, <<>>)>>

====
